---- MODULE Spec2Model ----
(***************************************************************************)
(* Model of the GitHub -> Asana issue sync worker: the IssueCoordinator    *)
(* Durable Object (per-entity serialisation, retry with backoff, cached    *)
(* task gid), the IssueSync.handleEvent three-step protocol and the        *)
(* ensureTaskExists resolver, together with the remote Asana project they  *)
(* act on.  One coordinator instance (one GitHub issue URL) is modelled;    *)
(* the worker's routing to the instances, the image attachment pipeline    *)
(* and the table conversion of the renderer have specifications of their   *)
(* own.                                                                    *)
(***************************************************************************)
EXTENDS Integers, Sequences, FiniteSets, TLC

\* ---------------------------------------------------------------- bounds
NumDeliveries == 2      \* webhook deliveries routed to this coordinator
MaxTasks == 2           \* task gids the remote service hands out
MaxFaults == 3          \* remote / storage calls that fail transiently
MaxDeletes == 1         \* out-of-band deletions of remote tasks
MaxRestarts == 1        \* times the coordinator object is constructed again
MaxPasses == 2          \* renders of the task's description
MaxRows == 2            \* rows of a table
MaxCols == 2            \* cells of a table row

\* ------------------------------------------------------ program constants
maxRetries == 2
limit == 100            \* page size findTaskByGithubUrl asks the listing for
\* Mutation of retryDelays: the two delays in the wrong order.
retryDelaysSwapped == <<10000, 5000>>
retryDelays == <<5000, 10000>>

Deliveries == 1..NumDeliveries
Gids == 1..MaxTasks
NoGid == 0              \* undefined / absent gid

\* Events of the one entity this coordinator serves: the issue is opened, a
\* comment is created on it.  Body "b2" is content whose rendered HTML the
\* destination rejects as structurally invalid XML.
Events ==
  { [type |-> "issues", action |-> "opened", state |-> "open", title |-> "t1", body |-> "b1",
     labels |-> {}],
    [type |-> "issue_comment", action |-> "created", state |-> "open", title |-> "t1", body |-> "b2",
     labels |-> {}] }

\* The wider event vocabulary routed to the coordinator: opened with a label;
\* edited with a new title and the label removed; closed; a comment created
\* while the entity is closed; a pull_request event that reopens it.
SyncEvents ==
  { [type |-> "issues", action |-> "opened", state |-> "open", title |-> "t1", body |-> "b1",
     labels |-> {"bug"}],
    [type |-> "issues", action |-> "edited", state |-> "open", title |-> "t2", body |-> "b1",
     labels |-> {}],
    [type |-> "issues", action |-> "closed", state |-> "closed", title |-> "t1", body |-> "b2",
     labels |-> {"bug"}],
    [type |-> "issue_comment", action |-> "created", state |-> "closed", title |-> "t1", body |-> "b1",
     labels |-> {"bug"}],
    [type |-> "pull_request", action |-> "reopened", state |-> "open", title |-> "t1", body |-> "b1",
     labels |-> {"bug"}] }

NoEvent == [type |-> "none", action |-> "none", state |-> "none", title |-> "none", body |-> "none",
            labels |-> {}]

InvalidXmlBodies == {"b2"}

VARIABLES
  env,            \* configuration: which env vars are set
  foreign,        \* tasks of other entities the project listing returns first
  cachedTaskGid,  \* this.cachedTaskGid (in memory)
  storage,        \* durable storage entry 'asanaTaskGid'
  remote,         \* remote tasks by gid
  project,        \* gids of the project's tasks, in listing order
  nextGid,        \* next gid the remote service assigns
  pc,             \* position of each delivery's fetch / handleEvent
  lock,           \* delivery inside blockConcurrencyWhile, or 0
  ev,             \* eventType + payload of each delivery
  attempt,        \* loop variable `attempt` of each delivery
  hint,           \* payload._cachedAsanaTaskGid of each delivery
  cur,            \* task resolved by ensureTaskExists in the running attempt
  waits,          \* delays slept by each delivery, in order
  lastErr,        \* error caught by the latest failed attempt of each delivery
  failures,       \* number of failed attempts per delivery
  steps,          \* protocol steps the running attempt has completed
  attemptsRun,    \* number of IssueSync runs started per delivery
  response,       \* Response of fetch per delivery
  created,        \* number of tasks each delivery created
  entry,          \* cache (memory, storage) when the running delivery entered
  calls,          \* remote calls issued by the latest attempt of each delivery
  faults,         \* transient failures injected so far
  deletes,        \* out-of-band deletions so far
  incarnation,    \* constructions of the coordinator object so far; last gid returned
  tableHtml,      \* rows of cell texts of the table given to convertTableToPreformatted
  formatted,      \* lines returned by convertTableToPreformatted
  attachments,    \* attachments of the task, by gid
  stories,        \* activity-log entries of the task
  render,         \* locals of the running processImagesInHtml pass
  pass,           \* render passes started so far
  deleted,        \* stories deleted so far, with the pass that deleted them
  objects,        \* Durable Object instances by name
  requests,       \* webhook requests received by the worker
  dispatched,     \* webhooks handled by WebhookHandler.handleWebhook, in order
  enumOptions,    \* names of the enum options of a custom field, by option gid
  lookups         \* option resolutions (custom-field-helper) of the running syncs

coordVars == <<cachedTaskGid, storage>>
remoteVars == <<remote, project, nextGid>>
histVars == <<waits, lastErr, failures, steps, attemptsRun, response, created, entry, calls>>
tableVars == <<tableHtml, formatted>>
imageVars == <<attachments, stories, render, pass, deleted>>
routeVars == <<objects, requests>>
webhookVars == <<dispatched>>
optionVars == <<enumOptions, lookups>>
sideVars == <<tableVars, imageVars, routeVars, webhookVars, optionVars>>
vars == <<env, foreign, cachedTaskGid, storage, remote, project, nextGid, pc, lock, ev, attempt, hint,
          cur, waits, lastErr, failures, steps, attemptsRun, response, created, entry,
          calls, faults, deletes, incarnation, tableHtml, formatted, attachments, stories, render,
          pass, deleted, objects, requests, dispatched, enumOptions, lookups>>

NoTask == [exists |-> FALSE, name |-> "none", url |-> "none", labels |-> {}, custom |-> {},
           notes |-> [fmt |-> "none", src |-> "none"], completed |-> FALSE]

NoResponse == [status |-> 0, taskGid |-> NoGid, error |-> "none", result |-> "none"]

\* The state every specification starts from once the constructor has run:
\* cachedTaskGid was read from storage, which holds nothing before the
\* entity's first event.
Constructed ==
  /\ storage = NoGid
  /\ cachedTaskGid = storage
  /\ remote = [g \in Gids |-> NoTask]
  /\ project = <<>>
  /\ nextGid = 1
  /\ pc = [d \in Deliveries |-> "idle"]
  /\ lock = 0
  /\ ev = [d \in Deliveries |-> NoEvent]
  /\ attempt = [d \in Deliveries |-> 0]
  /\ hint = [d \in Deliveries |-> NoGid]
  /\ cur = [d \in Deliveries |-> NoGid]
  /\ waits = [d \in Deliveries |-> <<>>]
  /\ lastErr = [d \in Deliveries |-> "none"]
  /\ failures = [d \in Deliveries |-> 0]
  /\ steps = [d \in Deliveries |-> {}]
  /\ attemptsRun = [d \in Deliveries |-> 0]
  /\ response = [d \in Deliveries |-> NoResponse]
  /\ created = [d \in Deliveries |-> 0]
  /\ entry = [mem |-> NoGid, stored |-> NoGid, stale |-> FALSE]
  /\ calls = [d \in Deliveries |-> <<>>]
  /\ deletes = 0
  /\ incarnation = [restarts |-> 0, lastGood |-> NoGid]

\* Nothing is rendered and no second entity is served.
TableIdle == tableHtml = <<>> /\ formatted = <<>>
ImagesIdle == attachments = <<>> /\ stories = {} /\ render = <<>> /\ pass = 0 /\ deleted = {}
RouteIdle == objects = <<>> /\ requests = <<>>
WebhookIdle == dispatched = <<>>
OptionsIdle == enumOptions = <<>> /\ lookups = <<>>

\* A small project (one listing page), no labels field, any combination of
\* the project id and the source-URL field.
Init ==
  /\ env \in [ASANA_PROJECT_ID : BOOLEAN, GITHUB_URL_FIELD_ID : BOOLEAN, LABELS_FIELD_ID : {FALSE},
            REPOSITORY_FIELD_ID : {FALSE}, CREATOR_FIELD_ID : {FALSE}, ISSUE_TYPE_FIELD_ID : {FALSE},
            WEBHOOK_SECRET : {FALSE}]
  /\ foreign = 0
  /\ faults = 0
  /\ Constructed
  /\ TableIdle /\ ImagesIdle /\ RouteIdle /\ WebhookIdle /\ OptionsIdle

\* ------------------------------------------------------------- helpers
\* Mutation of isComment: only review comments are recognised as comments.
isCommentReviewOnly(e) == e.type = "pull_request_review_comment"

isComment(e) == e.type \in {"issue_comment", "pull_request_review_comment"}

\* A transient failure of a remote or storage call may be injected.
MayFail == faults < MaxFaults

\* Content pushed by updateTaskDescription: rendered HTML, or the raw markdown
\* as plain-text notes on the fallback path.
HtmlNotes(body) == [fmt |-> "html", src |-> body]
PlainNotes(body) == [fmt |-> "plain", src |-> body]

\* taskContent.markdownContent of issueToTask: the markdown of the entity's
\* current body and conversation, which the event's body stands for.
markdownContent(e) == e.body

\* Mutation of NewNotes: the content is written only to a task that has no
\* description yet.
NewNotesKeepsExisting(old, body) ==
  IF old.fmt # "none" THEN old
  ELSE IF body \in InvalidXmlBodies THEN PlainNotes(body) ELSE HtmlNotes(body)

\* The description of a task after updateTaskDescription succeeded on it:
\* updateTask replaces the description by the content just rendered
\* (html_notes), or by the markdown as plain notes when the HTML is rejected.
NewNotes(old, body) ==
  IF body \in InvalidXmlBodies THEN PlainNotes(body) ELSE HtmlNotes(body)

\* buildCustomFields: the identity attributes put into the custom_fields
\* object.  The source URL is added when its field is configured; the labels
\* are added when their field is configured and the event carries at least
\* one label.
\* `failed` is the set of option lookups that threw; their fields are left
\* out (each lookup sits in its own try/catch).  `keys` names the fields of
\* the object.
EnumFields(e) ==
  {f \in {"repository"} : env.REPOSITORY_FIELD_ID}
    \cup {f \in {"type"} : env.ISSUE_TYPE_FIELD_ID}
    \cup {f \in {"labels"} : env.LABELS_FIELD_ID /\ e.labels # {}}

\* Mutation of buildCustomFields: the creator is written whether or not its
\* field is configured.
buildCustomFieldsCreatorAlways(e, failed) ==
  [url |-> IF env.GITHUB_URL_FIELD_ID THEN "this" ELSE "none",
   hasLabels |-> "labels" \in EnumFields(e) \ failed,
   labels |-> e.labels,
   keys |-> {f \in {"url"} : env.GITHUB_URL_FIELD_ID} \cup {"creator"} \cup (EnumFields(e) \ failed)]

buildCustomFields(e, failed) ==
  [url |-> IF env.GITHUB_URL_FIELD_ID THEN "this" ELSE "none",
   hasLabels |-> "labels" \in EnumFields(e) \ failed,
   labels |-> e.labels,
   keys |-> {f \in {"url"} : env.GITHUB_URL_FIELD_ID}
              \cup {f \in {"creator"} : env.CREATOR_FIELD_ID}
              \cup (EnumFields(e) \ failed)]

NoCustomFields(cf) == cf.keys = {}

\* updateTask(gid, {custom_fields}) on the remote side: only the fields
\* present in the object are written.
WriteCustomFields(t, cf) ==
  [t EXCEPT !.url = IF cf.url # "none" THEN cf.url ELSE @,
            !.labels = IF cf.hasLabels THEN cf.labels ELSE @,
            !.custom = @ \cup cf.keys]

\* Positions in the project listing, among those on the one page of `limit`
\* tasks that findTaskByGithubUrl reads, of tasks whose source-URL field
\* equals this entity's URL.
MatchingTasks ==
  { i \in 1..Len(project) :
      /\ foreign + i <= limit
      /\ remote[project[i]].exists
      /\ remote[project[i]].url = "this" }

\* ------------------------------------------------- coordinator: fetch / gate
\* blockConcurrencyWhile: while a callback runs, no other event is delivered
\* to the object.
\* Mutation of GateOpen: handleEvent without blockConcurrencyWhile.
GateAlwaysOpen == TRUE
GateOpen == lock = 0

\* fetch(request) is invoked for the next delivery (requests reach the object
\* in order) and suspends at `await request.json()`.
fetch(d) ==
  /\ pc[d] = "idle"
  /\ \A k \in Deliveries : k < d => pc[k] # "idle"
  /\ GateOpen
  /\ pc' = [pc EXCEPT ![d] = "parsing"]
  /\ UNCHANGED <<sideVars, incarnation, env, foreign, coordVars, remoteVars, lock, ev, attempt, hint, cur, histVars, faults, deletes>>

\* The body is parsed into eventType and payload; fetch calls handleEvent,
\* which enters blockConcurrencyWhile and starts the retry loop with
\* attempt = 0.  The per-delivery records of earlier deliveries are dropped.
handleEvent(d, e) ==
  /\ pc[d] = "parsing"
  /\ GateOpen
  /\ lock' = d
  /\ ev' = [ev EXCEPT ![d] = e]
  /\ pc' = [pc EXCEPT ![d] = "start"]
  /\ attempt' = [attempt EXCEPT ![d] = 0]
  /\ entry' = [mem |-> cachedTaskGid, stored |-> storage,
                stale |-> cachedTaskGid # NoGid /\ ~remote[cachedTaskGid].exists]
  /\ waits' = [k \in Deliveries |-> <<>>]
  /\ lastErr' = [k \in Deliveries |-> "none"]
  /\ failures' = [k \in Deliveries |-> 0]
  /\ steps' = [k \in Deliveries |-> {}]
  /\ attemptsRun' = [k \in Deliveries |-> 0]
  /\ created' = [k \in Deliveries |-> 0]
  /\ calls' = [k \in Deliveries |-> <<>>]
  /\ UNCHANGED <<sideVars, incarnation, env, foreign, coordVars, remoteVars, hint, cur, response, faults, deletes>>

\* Leaving handleEvent: the critical section ends and the locals are gone.
Leave(d) ==
  /\ pc' = [pc EXCEPT ![d] = "done"]
  /\ lock' = 0
  /\ attempt' = [attempt EXCEPT ![d] = 0]
  /\ hint' = [hint EXCEPT ![d] = NoGid]
  /\ cur' = [cur EXCEPT ![d] = NoGid]

\* Mutation of Catch: on exhaustion the error of the previous failed attempt
\* is rethrown instead of the last one.
CatchRethrowsEarlier(d, error) ==
  /\ lastErr' = [lastErr EXCEPT ![d] = error]
  /\ failures' = [failures EXCEPT ![d] = @ + 1]
  /\ steps' = [steps EXCEPT ![d] = {}]
  /\ IF attempt[d] = maxRetries
       THEN /\ Leave(d)
            /\ response' = [response EXCEPT ![d] = [status |-> 500, taskGid |-> NoGid, error |-> lastErr[d],
                                                        result |-> "none"]]
       ELSE /\ pc' = [pc EXCEPT ![d] = "backoff"]
            /\ UNCHANGED <<response, lock, attempt, hint, cur>>

\* catch (error): rethrow after the last attempt (fetch answers 500 with the
\* error's message), otherwise arm the backoff timer.
Catch(d, error) ==
  /\ lastErr' = [lastErr EXCEPT ![d] = error]
  /\ failures' = [failures EXCEPT ![d] = @ + 1]
  /\ steps' = [steps EXCEPT ![d] = {}]
  /\ IF attempt[d] = maxRetries
       THEN /\ Leave(d)
            /\ response' = [response EXCEPT ![d] = [status |-> 500, taskGid |-> NoGid, error |-> error,
                                                        result |-> "none"]]
       ELSE /\ pc' = [pc EXCEPT ![d] = "backoff"]
            /\ UNCHANGED <<response, lock, attempt, hint, cur>>

\* The backoff timer fires: the loop continues with the next attempt.
BackoffElapsed(d) ==
  /\ pc[d] = "backoff"
  /\ waits' = [waits EXCEPT ![d] = Append(@, retryDelays[attempt[d] + 1])]
  /\ attempt' = [attempt EXCEPT ![d] = @ + 1]
  /\ pc' = [pc EXCEPT ![d] = "start"]
  /\ UNCHANGED <<sideVars, incarnation, env, foreign, coordVars, remoteVars, lock, ev, hint, cur, lastErr, failures, steps,
                 attemptsRun, response, created, entry, calls, faults, deletes>>

\* --------------------------------------------- one attempt of the retry loop
\* try { new AsanaAPI; new IssueSync (throws without ASANA_PROJECT_ID); pass
\* the cached gid on the payload; issueSync.handleEvent begins }.
AttemptStart(d) ==
  /\ pc[d] = "start"
  /\ attemptsRun' = [attemptsRun EXCEPT ![d] = @ + 1]
  /\ calls' = [calls EXCEPT ![d] = <<>>]
  /\ UNCHANGED <<sideVars, incarnation, env, foreign, coordVars, remoteVars, ev, waits, created, entry, faults, deletes>>
  /\ IF ~env.ASANA_PROJECT_ID
       THEN Catch(d, "config")
       ELSE /\ UNCHANGED <<failures, steps>>
            /\ hint' = [hint EXCEPT ![d] = IF cachedTaskGid # NoGid THEN cachedTaskGid ELSE @]
            /\ cur' = [cur EXCEPT ![d] = NoGid]
            /\ pc' = [pc EXCEPT ![d] = IF hint'[d] # NoGid THEN "verify" ELSE "search"]
            /\ UNCHANGED <<lock, attempt, lastErr, response>>

\* A remote call, the task it addresses (NoGid: none or not yet known), and
\* whether it succeeded.
Call(op, g, ok) == [op |-> op, gid |-> g, ok |-> ok, err |-> IF ok THEN "none" ELSE "error"]

\* A call that the remote service answered with the given error.
FailedCall(op, g, error) == [op |-> op, gid |-> g, ok |-> FALSE, err |-> error]

\* The option lookups of buildCustomFields (getCustomFieldForProject,
\* getMultiEnumOptionsForField), in the order repository, type, labels.
LookupCalls(e, failed) ==
  LET one(f) == IF f \in EnumFields(e) THEN <<Call("getCustomField", NoGid, f \notin failed)>>
                                        ELSE <<>>
  IN one("repository") \o one("type") \o one("labels")

\* Lookup failures of one buildCustomFields run: any of the lookups made may
\* fail transiently.
LookupFailures(e) == {failed \in SUBSET EnumFields(e) : failed = {} \/ MayFail}

\* Mutation of verifyTaskExists: the hint is used without verification.
verifyTaskExistsTrusting(d) ==
  /\ pc[d] = "verify"
  /\ cur' = [cur EXCEPT ![d] = hint[d]]
  /\ pc' = [pc EXCEPT ![d] = "fields"]
  /\ UNCHANGED <<sideVars, incarnation, env, foreign, coordVars, remoteVars, lock, ev, attempt, hint, histVars, faults, deletes>>

\* verifyTaskExists calls asanaAPI.getTask inside try/catch and returns null
\* when the call throws.  The AsanaAPI client defines no getTask method, so
\* the call throws a TypeError before any request is sent, for every hint.
verifyTaskExists(d) ==
  /\ pc[d] = "verify"
  /\ pc' = [pc EXCEPT ![d] = "search"]
  /\ UNCHANGED <<sideVars, incarnation, env, foreign, coordVars, remoteVars, lock, ev, attempt, hint, cur, histVars, faults, deletes>>

\* findTaskByGithubUrl: null without GITHUB_URL_FIELD_ID, null when the
\* listing fails, otherwise the first listed task whose URL field matches.
findTaskByGithubUrl(d) ==
  /\ pc[d] = "search"
  /\ \/ /\ ~env.GITHUB_URL_FIELD_ID
        /\ pc' = [pc EXCEPT ![d] = "create"]
        /\ UNCHANGED <<cur, faults, calls>>
     \/ /\ env.GITHUB_URL_FIELD_ID
        /\ IF MatchingTasks = {}
             THEN /\ pc' = [pc EXCEPT ![d] = "create"]
                  /\ UNCHANGED cur
             ELSE /\ cur' = [cur EXCEPT ![d] =
                               project[CHOOSE i \in MatchingTasks : \A j \in MatchingTasks : i <= j]]
                  /\ pc' = [pc EXCEPT ![d] = "fields"]
        /\ calls' = [calls EXCEPT ![d] = Append(@, Call("getTasksForProject", NoGid, TRUE))]
        /\ UNCHANGED faults
     \/ /\ env.GITHUB_URL_FIELD_ID
        /\ MayFail
        /\ faults' = faults + 1
        /\ pc' = [pc EXCEPT ![d] = "create"]
        /\ calls' = [calls EXCEPT ![d] = Append(@, Call("getTasksForProject", NoGid, FALSE))]
        /\ UNCHANGED cur
  /\ UNCHANGED <<sideVars, incarnation, env, foreign, coordVars, remoteVars, lock, ev, attempt, hint, waits, lastErr, failures,
                 steps, attemptsRun, response, created, entry, deletes>>

\* updateTaskCustomFields on the task found: one updateTask call when any
\* field is configured; its failure is rethrown.
updateTaskCustomFields(d) ==
  /\ pc[d] = "fields"
  /\ UNCHANGED <<sideVars, incarnation, env, foreign, coordVars, project, nextGid, ev, waits, attemptsRun, created,
                 entry, deletes>>
  /\ \E failed \in LookupFailures(ev[d]) :
     LET cf == buildCustomFields(ev[d], failed)
         looked == calls[d] \o LookupCalls(ev[d], failed) IN
     \/ /\ NoCustomFields(cf)
        /\ pc' = [pc EXCEPT ![d] = "describe"]
        /\ calls' = [calls EXCEPT ![d] = looked]
        /\ faults' = IF failed = {} THEN faults ELSE faults + 1
        /\ UNCHANGED <<remote, lock, attempt, hint, cur, lastErr, failures, response>>
        /\ steps' = [steps EXCEPT ![d] = @ \cup {"resolve"}]
     \/ /\ ~NoCustomFields(cf)
        /\ remote[cur[d]].exists
        /\ remote' = [remote EXCEPT ![cur[d]] = WriteCustomFields(@, cf)]
        /\ pc' = [pc EXCEPT ![d] = "describe"]
        /\ calls' = [calls EXCEPT ![d] = Append(looked, Call("custom_fields", cur[d], TRUE))]
        /\ faults' = IF failed = {} THEN faults ELSE faults + 1
        /\ UNCHANGED <<lock, attempt, hint, cur, lastErr, failures, response>>
        /\ steps' = [steps EXCEPT ![d] = @ \cup {"resolve"}]
     \/ /\ ~NoCustomFields(cf)
        /\ failed = {}
        /\ \/ ~remote[cur[d]].exists /\ UNCHANGED faults
           \/ MayFail /\ faults' = faults + 1
        /\ calls' = [calls EXCEPT ![d] = Append(looked, Call("custom_fields", cur[d], FALSE))]
        /\ UNCHANGED remote
        /\ Catch(d, "asana")

\* createTaskWithCustomFields: createTask with the name, the project and the
\* configured fields; its failure is rethrown.
createTaskWithCustomFields(d) ==
  /\ pc[d] = "create"
  /\ UNCHANGED <<sideVars, incarnation, env, foreign, coordVars, ev, waits, attemptsRun, entry, deletes>>
  /\ \E failed \in LookupFailures(ev[d]) :
     LET looked == calls[d] \o LookupCalls(ev[d], failed) IN
     \/ /\ nextGid <= MaxTasks
        /\ remote' = [remote EXCEPT ![nextGid] =
                        WriteCustomFields([NoTask EXCEPT !.exists = TRUE, !.name = ev[d].title],
                                          buildCustomFields(ev[d], failed))]
        /\ project' = Append(project, nextGid)
        /\ nextGid' = nextGid + 1
        /\ cur' = [cur EXCEPT ![d] = nextGid]
        /\ created' = [created EXCEPT ![d] = @ + 1]
        /\ pc' = [pc EXCEPT ![d] = "describe"]
        /\ calls' = [calls EXCEPT ![d] = Append(looked, Call("createTask", nextGid, TRUE))]
        /\ faults' = IF failed = {} THEN faults ELSE faults + 1
        /\ UNCHANGED <<lock, attempt, hint, lastErr, failures, response>>
        /\ steps' = [steps EXCEPT ![d] = @ \cup {"resolve"}]
     \/ /\ failed = {}
        /\ MayFail
        /\ faults' = faults + 1
        /\ calls' = [calls EXCEPT ![d] = Append(looked, Call("createTask", NoGid, FALSE))]
        /\ UNCHANGED <<remoteVars, created>>
        /\ Catch(d, "asana")

\* Mutation of AfterDescribe: completion is set only by the events whose
\* action is 'closed' or 'reopened'.
AfterDescribeOnStateChange(e) ==
  IF isComment(e) \/ e.action \notin {"closed", "reopened"} THEN "store" ELSE "complete"

\* Mutation of AfterDescribe: the completion step runs for comment events too.
AfterDescribeAlwaysCompletes(e) == "complete"

\* Position after the description step: comment events skip the completion step.
AfterDescribe(e) == IF isComment(e) THEN "store" ELSE "complete"

\* Mutation of IsXmlParsingError: every failure of the html_notes update is
\* taken for an XML parsing error.
IsXmlParsingErrorAny(error) == TRUE

\* error.message.includes('xml_parsing_error') || error.message.includes('XML is invalid')
IsXmlParsingError(error) == error \in {"xml_parsing_error", "XML is invalid"}

\* Outcomes of updateTask(gid, {html_notes}): "none" for success, else the
\* error.  The destination rejects the HTML of a body in InvalidXmlBodies; a
\* deleted task is not found; any call may fail transiently.
HtmlUpdateOutcomes(g, body) ==
  IF ~remote[g].exists THEN {"not_found"}
  ELSE (IF body \in InvalidXmlBodies THEN {"xml_parsing_error"} ELSE {"none"})
         \cup {o \in {"unavailable"} : MayFail}

\* Mutation of Rethrow: the error of the description update is logged and
\* the caller goes on with the next step.
RethrowSwallowed(d, error) ==
  /\ pc' = [pc EXCEPT ![d] = AfterDescribe(ev[d])]
  /\ UNCHANGED <<lastErr, failures, steps, response, lock, attempt, hint, cur>>

\* `throw error` / `throw fallbackError` in the catch block of
\* updateTaskDescription: the error leaves IssueSync.handleEvent, whose
\* remaining steps do not run, and lands in the catch of the retry loop.
Rethrow(d, error) == Catch(d, error)

\* updateTaskDescription: updateTask with html_notes; on an XML parsing error
\* one further updateTask with the markdown as plain notes; other errors and
\* a failing fallback are rethrown.
updateTaskDescription(d) ==
  /\ pc[d] = "describe"
  /\ UNCHANGED <<sideVars, incarnation, env, foreign, coordVars, project, nextGid, ev, waits, attemptsRun, created,
                 entry, deletes>>
  /\ LET body == markdownContent(ev[d])
         g == cur[d] IN
     \E out \in HtmlUpdateOutcomes(g, body) :
       \/ /\ out = "none"
          /\ remote' = [remote EXCEPT ![g].notes = NewNotes(@, body)]
          /\ pc' = [pc EXCEPT ![d] = AfterDescribe(ev[d])]
          /\ calls' = [calls EXCEPT ![d] = Append(@, Call("html_notes", g, TRUE))]
          /\ UNCHANGED <<faults, lock, attempt, hint, cur, lastErr, failures, response>>
          /\ steps' = [steps EXCEPT ![d] = @ \cup {"describe"}]
       \/ /\ out # "none" /\ IsXmlParsingError(out)
          /\ remote[g].exists
          /\ remote' = [remote EXCEPT ![g].notes = PlainNotes(body)]
          /\ pc' = [pc EXCEPT ![d] = AfterDescribe(ev[d])]
          /\ calls' = [calls EXCEPT ![d] =
                         @ \o <<FailedCall("html_notes", g, out), Call("notes", g, TRUE)>>]
          /\ faults' = IF out = "unavailable" THEN faults + 1 ELSE faults
          /\ UNCHANGED <<lock, attempt, hint, cur, lastErr, failures, response>>
          /\ steps' = [steps EXCEPT ![d] = @ \cup {"describe"}]
       \/ /\ out # "none" /\ IsXmlParsingError(out)
          /\ \/ ~remote[g].exists /\ UNCHANGED faults
             \/ out # "unavailable" /\ MayFail /\ faults' = faults + 1
          /\ calls' = [calls EXCEPT ![d] =
                         @ \o <<FailedCall("html_notes", g, out), Call("notes", g, FALSE)>>]
          /\ UNCHANGED remote
          /\ Rethrow(d, "fallback")
       \/ /\ out # "none" /\ ~IsXmlParsingError(out)
          /\ faults' = IF out = "unavailable" THEN faults + 1 ELSE faults
          /\ calls' = [calls EXCEPT ![d] = Append(@, FailedCall("html_notes", g, out))]
          /\ UNCHANGED remote
          /\ Rethrow(d, "asana")

\* const shouldBeCompleted = githubState === 'closed'
shouldBeCompleted(e) == e.state = "closed"

\* markTaskComplete(asanaAPI, shouldBeCompleted, gid) for non-comment events:
\* the task's completed flag is set to shouldBeCompleted.
markTaskComplete(d) ==
  /\ pc[d] = "complete"
  /\ UNCHANGED <<sideVars, incarnation, env, foreign, coordVars, project, nextGid, ev, waits, attemptsRun, created,
                 entry, deletes>>
  /\ \/ /\ remote[cur[d]].exists
        /\ remote' = [remote EXCEPT ![cur[d]].completed = shouldBeCompleted(ev[d])]
        /\ pc' = [pc EXCEPT ![d] = "store"]
        /\ calls' = [calls EXCEPT ![d] = Append(@, Call("completed", cur[d], TRUE))]
        /\ UNCHANGED <<faults, lock, attempt, hint, cur, lastErr, failures, response>>
        /\ steps' = [steps EXCEPT ![d] = @ \cup {"complete"}]
     \/ /\ \/ ~remote[cur[d]].exists /\ UNCHANGED faults
           \/ MayFail /\ faults' = faults + 1
        /\ calls' = [calls EXCEPT ![d] = Append(@, Call("completed", cur[d], FALSE))]
        /\ UNCHANGED remote
        /\ Catch(d, "asana")

\* task.permalink_url of the task object ensureTaskExists returned.  A task
\* just created is the record the create call answers, which carries the
\* permalink; a task found by the search is an element of the listing, which
\* was asked for opt_fields gid, name and custom_fields only.
permalink_url(d) ==
  IF \E i \in 1..Len(calls[d]) : calls[d][i] = Call("createTask", cur[d], TRUE)
    THEN "permalink" ELSE "undefined"

\* `result` of IssueSync.handleEvent: task.permalink_url, replaced by what
\* markTaskComplete returns when the event is not a comment.
ResultOf(d) == IF isComment(ev[d]) THEN permalink_url(d) ELSE "completion"

\* Back in the coordinator with the result: a gid that differs from the
\* cached one is assigned to this.cachedTaskGid and then written to storage
\* (a rejected put lands in the catch block); then the result is returned.
StoreAndReturn(d) ==
  /\ pc[d] = "store"
  /\ UNCHANGED <<sideVars, env, foreign, remoteVars, ev, waits, attemptsRun, created, entry, calls,
                 deletes>>
  /\ LET g == cur[d]
         Return == /\ Leave(d)
                   /\ response' = [response EXCEPT ![d] = [status |-> 200, taskGid |-> g, error |-> "none",
                                                           result |-> ResultOf(d)]]
                   /\ incarnation' = [incarnation EXCEPT !.lastGood = g]
                   /\ UNCHANGED <<lastErr, failures, steps>> IN
     \/ /\ g = cachedTaskGid
        /\ UNCHANGED <<coordVars, faults>>
        /\ Return
     \/ /\ g # cachedTaskGid
        /\ cachedTaskGid' = g
        /\ storage' = g
        /\ UNCHANGED faults
        /\ Return
     \/ /\ g # cachedTaskGid
        /\ MayFail
        /\ faults' = faults + 1
        /\ cachedTaskGid' = g
        /\ UNCHANGED <<storage, incarnation>>
        /\ Catch(d, "storage")

\* ------------------------------------------------------------ environment
\* A remote task is deleted out of band, between two syncs.
ExternalDelete(g) ==
  /\ deletes < MaxDeletes
  /\ GateOpen
  /\ remote[g].exists
  /\ remote' = [remote EXCEPT ![g] = NoTask]
  /\ deletes' = deletes + 1
  /\ UNCHANGED <<sideVars, incarnation, env, foreign, coordVars, project, nextGid, pc, lock, ev, attempt, hint, cur,
                 histVars, faults>>

Next ==
  \/ \E d \in Deliveries : fetch(d)
  \/ \E d \in Deliveries, e \in Events : handleEvent(d, e)
  \/ \E d \in Deliveries : AttemptStart(d)
  \/ \E d \in Deliveries : verifyTaskExists(d)
  \/ \E d \in Deliveries : findTaskByGithubUrl(d)
  \/ \E d \in Deliveries : updateTaskCustomFields(d)
  \/ \E d \in Deliveries : createTaskWithCustomFields(d)
  \/ \E d \in Deliveries : updateTaskDescription(d)
  \/ \E d \in Deliveries : markTaskComplete(d)
  \/ \E d \in Deliveries : StoreAndReturn(d)
  \/ \E d \in Deliveries : BackoffElapsed(d)
  \/ \E g \in Gids : ExternalDelete(g)

Spec == Init /\ [][Next]_vars

\* The protocol under the wider event vocabulary: the project id is set, the
\* source-URL and labels fields are each configured or not, the project is
\* small or already fills one listing page with other entities' tasks, at
\* most one remote or storage call fails transiently, and no task is deleted
\* out of band.
InitSync ==
  /\ env \in [ASANA_PROJECT_ID : {TRUE}, GITHUB_URL_FIELD_ID : BOOLEAN, LABELS_FIELD_ID : BOOLEAN,
            REPOSITORY_FIELD_ID : {FALSE}, CREATOR_FIELD_ID : {FALSE}, ISSUE_TYPE_FIELD_ID : {FALSE},
            WEBHOOK_SECRET : {FALSE}]
  /\ foreign \in {0, limit}
  /\ faults = MaxFaults - 1
  /\ Constructed
  /\ TableIdle /\ ImagesIdle /\ RouteIdle /\ WebhookIdle /\ OptionsIdle

NextSync ==
  \/ \E d \in Deliveries : fetch(d)
  \/ \E d \in Deliveries, e \in SyncEvents : handleEvent(d, e)
  \/ \E d \in Deliveries : AttemptStart(d)
  \/ \E d \in Deliveries : verifyTaskExists(d)
  \/ \E d \in Deliveries : findTaskByGithubUrl(d)
  \/ \E d \in Deliveries : updateTaskCustomFields(d)
  \/ \E d \in Deliveries : createTaskWithCustomFields(d)
  \/ \E d \in Deliveries : updateTaskDescription(d)
  \/ \E d \in Deliveries : markTaskComplete(d)
  \/ \E d \in Deliveries : StoreAndReturn(d)
  \/ \E d \in Deliveries : BackoffElapsed(d)

SpecSync == InitSync /\ [][NextSync]_vars

\* -------------------------------------------------- a call that never completes
\* AsanaAPI.request awaits fetch(url, options) with no timeout or abort
\* signal, and handleEvent awaits issueSync.handleEvent with no timer of its
\* own: when the remote service never answers a createTask or updateTask
\* request, the attempt stays suspended in that await.
Hang(d) ==
  /\ pc[d] \in {"create", "describe", "complete"}
  /\ pc' = [pc EXCEPT ![d] = "hung"]
  /\ UNCHANGED <<sideVars, incarnation, env, foreign, coordVars, remoteVars, lock, ev, attempt, hint, cur, histVars,
                 faults, deletes>>

\* Remote calls answer or fail at once only in the configuration check; no
\* transient failure, no out-of-band deletion.
InitHang ==
  /\ env \in [ASANA_PROJECT_ID : BOOLEAN, GITHUB_URL_FIELD_ID : BOOLEAN, LABELS_FIELD_ID : {FALSE},
            REPOSITORY_FIELD_ID : {FALSE}, CREATOR_FIELD_ID : {FALSE}, ISSUE_TYPE_FIELD_ID : {FALSE},
            WEBHOOK_SECRET : {FALSE}]
  /\ foreign = 0
  /\ faults = MaxFaults
  /\ Constructed
  /\ TableIdle /\ ImagesIdle /\ RouteIdle /\ WebhookIdle /\ OptionsIdle

\* Every step except a call starting to hang.
Progress ==
  \/ \E d \in Deliveries : fetch(d)
  \/ \E d \in Deliveries, e \in Events : handleEvent(d, e)
  \/ \E d \in Deliveries : AttemptStart(d)
  \/ \E d \in Deliveries : verifyTaskExists(d)
  \/ \E d \in Deliveries : findTaskByGithubUrl(d)
  \/ \E d \in Deliveries : updateTaskCustomFields(d)
  \/ \E d \in Deliveries : createTaskWithCustomFields(d)
  \/ \E d \in Deliveries : updateTaskDescription(d)
  \/ \E d \in Deliveries : markTaskComplete(d)
  \/ \E d \in Deliveries : StoreAndReturn(d)
  \/ \E d \in Deliveries : BackoffElapsed(d)

NextHang ==
  \/ \E d \in Deliveries : fetch(d)
  \/ \E d \in Deliveries, e \in Events : handleEvent(d, e)
  \/ \E d \in Deliveries : AttemptStart(d)
  \/ \E d \in Deliveries : verifyTaskExists(d)
  \/ \E d \in Deliveries : findTaskByGithubUrl(d)
  \/ \E d \in Deliveries : updateTaskCustomFields(d)
  \/ \E d \in Deliveries : createTaskWithCustomFields(d)
  \/ \E d \in Deliveries : updateTaskDescription(d)
  \/ \E d \in Deliveries : markTaskComplete(d)
  \/ \E d \in Deliveries : StoreAndReturn(d)
  \/ \E d \in Deliveries : BackoffElapsed(d)
  \/ \E d \in Deliveries : Hang(d)

\* The runtime resumes every continuation that is ready and fires every
\* armed timer: steps other than a call starting to hang are taken when
\* they stay possible.
SpecHang == InitHang /\ [][NextHang]_vars /\ WF_vars(Progress)

\* Every combination of the five optional custom-field ids, in a small
\* project; at most one remote or storage call fails transiently.
InitFields ==
  /\ env \in [ASANA_PROJECT_ID : {TRUE}, GITHUB_URL_FIELD_ID : BOOLEAN, LABELS_FIELD_ID : BOOLEAN,
            REPOSITORY_FIELD_ID : BOOLEAN, CREATOR_FIELD_ID : BOOLEAN, ISSUE_TYPE_FIELD_ID : BOOLEAN,
            WEBHOOK_SECRET : {FALSE}]
  /\ foreign = 0
  /\ faults = MaxFaults - 1
  /\ Constructed
  /\ TableIdle /\ ImagesIdle /\ RouteIdle /\ WebhookIdle /\ OptionsIdle

\* The entity is opened with a label; it is edited and the label removed.
FieldEvents == {e \in SyncEvents : e.action \in {"opened", "edited"}}

NextFields ==
  \/ \E d \in Deliveries : fetch(d)
  \/ \E d \in Deliveries, e \in FieldEvents : handleEvent(d, e)
  \/ \E d \in Deliveries : AttemptStart(d)
  \/ \E d \in Deliveries : verifyTaskExists(d)
  \/ \E d \in Deliveries : findTaskByGithubUrl(d)
  \/ \E d \in Deliveries : updateTaskCustomFields(d)
  \/ \E d \in Deliveries : createTaskWithCustomFields(d)
  \/ \E d \in Deliveries : updateTaskDescription(d)
  \/ \E d \in Deliveries : markTaskComplete(d)
  \/ \E d \in Deliveries : StoreAndReturn(d)
  \/ \E d \in Deliveries : BackoffElapsed(d)

SpecFields == InitFields /\ [][NextFields]_vars

\* ------------------------------------------------------- image attachments
\* Strings are sequences of characters; a URL is the sequence of its
\* character codes.
\* A 32-bit integer is kept as <<high, low>>, its two unsigned 16-bit halves.
HexDigits == <<"0", "1", "2", "3", "4", "5", "6", "7", "8", "9", "a", "b", "c", "d", "e", "f">>

Hex4(n) ==
  <<HexDigits[(n \div 4096) + 1], HexDigits[((n \div 256) % 16) + 1],
    HexDigits[((n \div 16) % 16) + 1], HexDigits[(n % 16) + 1]>>

\* Math.abs(hash).toString(16).padStart(8, '0'): a negative hash (high bit
\* set) is negated first; at most eight digits, so the result has eight.
AbsHex(hash) ==
  LET low == IF hash[1] >= 32768 THEN (65536 - hash[2]) % 65536 ELSE hash[2]
      high == IF hash[1] >= 32768
                THEN (65535 - hash[1]) + (IF hash[2] = 0 THEN 1 ELSE 0)
                ELSE hash[1] IN
  Hex4(high) \o Hex4(low)

\* s.includes(part)
Includes(str, part) ==
  \E k \in 0..(Len(str) - Len(part)) : SubSeq(str, k + 1, k + Len(part)) = part

\* hash = ((hash << 5) - hash) + char; hash = hash & hash: 31 * hash + char,
\* truncated to 32 bits.
RECURSIVE UrlHash(_, _)
UrlHash(imageUrl, hash) ==
  IF imageUrl = <<>> THEN hash
  ELSE LET low == 31 * hash[2] + Head(imageUrl)
           high == 31 * hash[1] + (low \div 65536) IN
       UrlHash(Tail(imageUrl), <<high % 65536, low % 65536>>)

\* altText.replace(/[^a-zA-Z0-9]/g, '-').toLowerCase(), or 'image'
BaseName(altText) ==
  IF altText = <<>> THEN <<"i", "m", "a", "g", "e">>
  ELSE [i \in 1..Len(altText) |->
          CASE altText[i] = "M" -> "m"
            [] altText[i] \in {"a", "e", "g", "i", "m", "t", "y"} -> altText[i]
            [] OTHER -> "-"]

\* extensionMap[contentType] || '.png'
Extension(contentType) ==
  CASE contentType \in {"image/jpeg", "image/jpg"} -> <<".", "j", "p", "g">>
    [] contentType = "image/gif" -> <<".", "g", "i", "f">>
    [] contentType = "image/webp" -> <<".", "w", "e", "b", "p">>
    [] contentType = "image/svg+xml" -> <<".", "s", "v", "g">>
    [] OTHER -> <<".", "p", "n", "g">>

generateHashedFilename(imageUrl, contentType, altText) ==
  BaseName(altText) \o <<"-">> \o AbsHex(UrlHash(imageUrl, <<0, 0>>)) \o Extension(contentType)

\* Two image URLs ("u1", "u2") and the content type their server answers.
Url1 == <<117, 49>>
Url2 == <<117, 50>>
ContentType(src) == IF src = Url2 THEN "image/jpeg" ELSE "image/png"

\* <img> tags of the rendered HTML: source, alt text, and whether the tag
\* sits between <table> and </table>.
Img(src, alt, isInTable) == [kind |-> "img", src |-> src, alt |-> alt, isInTable |-> isInTable, gid |-> 0]
ImgPlain == Img(Url1, <<>>, FALSE)
ImgNamed == Img(Url1, <<"M", "y", " ", "i", "m", "a", "g", "e">>, FALSE)
ImgOther == Img(Url2, <<>>, FALSE)
ImgInTable == Img(Url2, <<"t">>, TRUE)

\* The rendered descriptions: no image, one image, the same URL with an alt
\* text, the same image twice, two images, an image in a table and one
\* outside.
HtmlContents ==
  { <<>>, <<ImgPlain>>, <<ImgNamed>>, <<ImgPlain, ImgPlain>>, <<ImgPlain, ImgOther>>,
    <<ImgInTable, ImgPlain>> }

FilenameOf(image) == generateHashedFilename(image.src, ContentType(image.src), image.alt)

\* <a href="src">[alt]</a> and <img data-asana-gid="gid">
ImageLink(image) == [image EXCEPT !.kind = "link"]
AsanaImgTag(image, gid) == [image EXCEPT !.kind = "ref", !.gid = gid]

\* updatedContent.replace(image.fullMatch, tag): the first occurrence of the
\* tag's text is replaced.
Replace(content, image, tag) ==
  LET hits == {k \in 1..Len(content) : content[k] = image} IN
  IF hits = {} THEN content
  ELSE [content EXCEPT ![CHOOSE k \in hits : \A j \in hits : k <= j] = tag]

NoRender ==
  [phase |-> "idle", images |-> <<>>, i |-> 1, updatedContent |-> <<>>,
   createdAttachmentGids |-> <<>>, createdAttachmentFilenames |-> <<>>, failed |-> {},
   log |-> <<>>, html_notes |-> <<>>]

\* The activity-log entry the destination writes for an uploaded attachment,
\* and a comment that mentions a file name.
AttachmentStory(gid, filename) ==
  [id |-> gid, subtype |-> "attachment_added", target |-> gid,
   text |-> <<"a", "d", "d", "e", "d", " ">> \o filename]
CommentStory ==
  [id |-> 0, subtype |-> "comment_added", target |-> 0, text |-> FilenameOf(ImgPlain)]

\* One task with a comment in its activity log; at most one call fails.
InitImages ==
  /\ env \in [ASANA_PROJECT_ID : {TRUE}, GITHUB_URL_FIELD_ID : {FALSE}, LABELS_FIELD_ID : {FALSE},
            REPOSITORY_FIELD_ID : {FALSE}, CREATOR_FIELD_ID : {FALSE}, ISSUE_TYPE_FIELD_ID : {FALSE},
            WEBHOOK_SECRET : {FALSE}]
  /\ foreign = 0
  /\ faults = MaxFaults - 1
  /\ Constructed
  /\ TableIdle /\ RouteIdle /\ WebhookIdle /\ OptionsIdle
  /\ attachments = <<>>
  /\ stories = {CommentStory}
  /\ render = NoRender
  /\ pass = 0
  /\ deleted = {}

mainVars == <<env, foreign, cachedTaskGid, storage, remote, project, nextGid, pc, lock, ev, attempt,
              hint, cur, waits, lastErr, failures, steps, attemptsRun, response, created, entry,
              calls, deletes, incarnation>>

\* processImagesInHtml is entered by a render of the task's description: the
\* img tags with http(s) sources are collected.
processImagesInHtml(htmlContent) ==
  /\ render.phase \in {"idle", "done"}
  /\ pass < MaxPasses
  /\ pass' = pass + 1
  /\ render' = [NoRender EXCEPT !.phase = IF htmlContent = <<>> THEN "rendered" ELSE "images",
                                !.images = htmlContent,
                                !.updatedContent = htmlContent]
  /\ UNCHANGED <<mainVars, webhookVars, optionVars, faults, tableVars, routeVars, attachments, stories, deleted>>

\* Mutation of CatchImageError: the error of one image leaves the loop; the
\* outer catch returns the original content.
CatchImageErrorRethrows(r, image) ==
  [r EXCEPT !.updatedContent = r.images, !.i = Len(r.images) + 1, !.phase = "rendered"]

\* catch (error) of the loop body: the image becomes a text link and the
\* loop goes on.
CatchImageError(r, image) ==
  [r EXCEPT !.updatedContent = Replace(@, image, ImageLink(image)),
            !.i = @ + 1,
            !.phase = IF r.i = Len(r.images) THEN "cleanup" ELSE "images"]

\* findExistingImageAttachment: the attachment named hashedFilename, if the
\* listing succeeded and has one (0: none).
findExistingImageAttachment(hashedFilename, listed) ==
  LET hits == {g \in 1..Len(attachments) : attachments[g].name = hashedFilename} IN
  IF ~listed \/ hits = {} THEN 0 ELSE CHOOSE g \in hits : \A h \in hits : g <= h

\* One iteration of the loop over the images: a table image becomes a link;
\* any other image is downloaded, looked up among the task's attachments by
\* its hashed filename, uploaded when the lookup returned nothing, and
\* replaced by a reference to the attachment.  downloaded, listed, uploaded:
\* whether the three calls succeed.
processImage ==
  /\ render.phase = "images"
  /\ UNCHANGED <<mainVars, webhookVars, optionVars, tableVars, routeVars, pass, deleted>>
  /\ LET image == render.images[render.i]
         next == IF render.i = Len(render.images) THEN "cleanup" ELSE "images"
         hashedFilename == FilenameOf(image) IN
     IF image.isInTable
       THEN /\ render' = [render EXCEPT !.updatedContent = Replace(@, image, ImageLink(image)),
                                        !.i = @ + 1, !.phase = next]
            /\ UNCHANGED <<faults, attachments, stories>>
       ELSE \E downloaded, listed, uploaded \in BOOLEAN :
              LET existing == findExistingImageAttachment(hashedFilename, listed)
                  uploads == downloaded /\ existing = 0
                  failedCalls == (IF ~downloaded THEN 1 ELSE 0)
                                   + (IF downloaded /\ ~listed THEN 1 ELSE 0)
                                   + (IF uploads /\ ~uploaded THEN 1 ELSE 0)
                  gid == Len(attachments) + 1
                  done == <<"download">> \o (IF downloaded THEN <<"getAttachmentsForObject">> ELSE <<>>)
                            \o (IF uploads THEN <<"createFileAttachment">> ELSE <<>>)
                  logged == [render EXCEPT !.log = @ \o done] IN
              /\ faults + failedCalls <= MaxFaults
              /\ faults' = faults + failedCalls
              /\ (~downloaded => listed /\ uploaded)
              /\ (~uploads => uploaded)
              /\ IF ~downloaded \/ (uploads /\ ~uploaded)
                   THEN /\ render' = [CatchImageError(logged, image) EXCEPT !.failed = @ \cup {render.i}]
                        /\ UNCHANGED <<attachments, stories>>
                   ELSE IF uploads
                     THEN /\ attachments' = Append(attachments, [name |-> hashedFilename, pass |-> pass])
                          /\ stories' = stories \cup {AttachmentStory(gid, hashedFilename)}
                          /\ render' = [logged EXCEPT
                               !.createdAttachmentGids = Append(@, gid),
                               !.createdAttachmentFilenames = Append(@, hashedFilename),
                               !.updatedContent = Replace(@, image, AsanaImgTag(image, gid)),
                               !.i = @ + 1, !.phase = next]
                     ELSE /\ render' = [logged EXCEPT
                               !.updatedContent = Replace(@, image, AsanaImgTag(image, existing)),
                               !.i = @ + 1, !.phase = next]
                          /\ UNCHANGED <<attachments, stories>>

\* After the loop: cleanupAttachmentStories runs when the pass created an
\* attachment.  It deletes the attachment_added stories whose text includes
\* one of the created filenames; a failing listing or deletion is logged and
\* swallowed.
cleanupAttachmentStories ==
  /\ render.phase = "cleanup"
  /\ UNCHANGED <<mainVars, webhookVars, optionVars, tableVars, routeVars, pass, attachments>>
  /\ \/ /\ render.createdAttachmentGids = <<>>
        /\ render' = [render EXCEPT !.phase = "rendered"]
        /\ UNCHANGED <<faults, stories, deleted>>
     \/ /\ render.createdAttachmentGids # <<>>
        /\ MayFail
        /\ faults' = faults + 1
        /\ render' = [render EXCEPT !.phase = "rendered", !.log = Append(@, "getStoriesForTask")]
        /\ UNCHANGED <<stories, deleted>>
     \/ /\ render.createdAttachmentGids # <<>>
        /\ LET filenames == {render.createdAttachmentFilenames[k] :
                               k \in 1..Len(render.createdAttachmentFilenames)}
               targetStories == {story \in stories :
                                   /\ story.subtype = "attachment_added"
                                   /\ \E filename \in filenames : Includes(story.text, filename)} IN
           \E kept \in SUBSET targetStories :
             /\ kept = {} \/ MayFail
             /\ faults' = IF kept = {} THEN faults ELSE faults + 1
             /\ stories' = stories \ (targetStories \ kept)
             /\ deleted' = deleted \cup {[story |-> story, pass |-> pass] : story \in targetStories \ kept}
             /\ render' = [render EXCEPT !.phase = "rendered",
                                         !.log = Append(@, "getStoriesForTask")]

\* renderMarkdown returns the processed content and updateTaskDescription
\* sends it as html_notes.
updateTaskHtmlNotes ==
  /\ render.phase = "rendered"
  /\ render' = [render EXCEPT !.phase = "done", !.html_notes = render.updatedContent]
  /\ UNCHANGED <<mainVars, webhookVars, optionVars, faults, tableVars, routeVars, attachments, stories, pass, deleted>>

NextImages ==
  \/ \E htmlContent \in HtmlContents : processImagesInHtml(htmlContent)
  \/ processImage
  \/ cleanupAttachmentStories
  \/ updateTaskHtmlNotes

SpecImages == InitImages /\ [][NextImages]_vars

\* ------------------------------------------------------------------ tables
\* Cell texts as convertTableToPreformatted extracts them from the <th>/<td>
\* elements: a short text, a longer one, and a text with a line break (a
\* <br> in the cell, which renderMarkdown has turned into a newline before
\* the table is converted).
CellTexts == {<<"a">>, <<"b", "c", "d">>, <<"x", "\n", "y">>}

\* The <tr> elements of a table, each with the texts of its cells; a raw
\* HTML table may have rows of different cell counts and rows without cells.
TableRows == UNION {[1..n -> CellTexts] : n \in 0..MaxCols}
Tables == UNION {[1..n -> TableRows] : n \in 0..MaxRows}

Max(S) == CHOOSE x \in S : \A y \in S : y <= x

Repeat(ch, n) == [i \in 1..n |-> ch]

\* cell.padEnd(width)
PadEnd(str, width) == str \o Repeat(" ", width - Len(str))

\* parts.join(sep)
RECURSIVE Join(_, _)
Join(parts, sep) ==
  IF parts = <<>> THEN <<>>
  ELSE IF Len(parts) = 1 THEN parts[1]
  ELSE parts[1] \o sep \o Join(Tail(parts), sep)

\* str.split('\n')
RECURSIVE Lines(_)
Lines(str) ==
  LET breaks == {k \in 1..Len(str) : str[k] = "\n"} IN
  IF breaks = {} THEN <<str>>
  ELSE LET k == CHOOSE b \in breaks : \A c \in breaks : b <= c IN
       <<SubSeq(str, 1, k - 1)>> \o Lines(SubSeq(str, k + 1, Len(str)))

\* columnWidths[i] = Math.max(columnWidths[i] || 0, row[i].length), over the rows
columnWidths(rows) ==
  [i \in 1..Max({Len(rows[r]) : r \in 1..Len(rows)}) |->
     Max({Len(rows[r][i]) : r \in {q \in 1..Len(rows) : Len(rows[q]) >= i}})]

\* convertTableToPreformatted: rows without cells are dropped; every cell is
\* padded to its column's width; the rows are joined by newlines, with a
\* separator line after the first row when there are more rows.
convertTableToPreformatted(tableHtmlRows) ==
  LET rows == SelectSeq(tableHtmlRows, LAMBDA cells : Len(cells) > 0) IN
  IF rows = <<>> THEN <<>>
  ELSE
    LET widths == columnWidths(rows)
        formattedRow(row) ==
          <<"|", " ">> \o Join([i \in 1..Len(row) |-> PadEnd(row[i], widths[i])], <<" ", "|", " ">>)
            \o <<" ", "|">>
        separator ==
          <<"|">> \o Join([i \in 1..Len(widths) |-> Repeat("-", widths[i] + 2)], <<"|">>) \o <<"|">>
        formattedRows ==
          [r \in 1..Len(rows) |->
             IF r = 1 /\ Len(rows) > 1 THEN formattedRow(rows[r]) \o <<"\n">> \o separator
             ELSE formattedRow(rows[r])] IN
    Join(formattedRows, <<"\n">>)

InitTable ==
  /\ env \in [ASANA_PROJECT_ID : {TRUE}, GITHUB_URL_FIELD_ID : {FALSE}, LABELS_FIELD_ID : {FALSE},
            REPOSITORY_FIELD_ID : {FALSE}, CREATOR_FIELD_ID : {FALSE}, ISSUE_TYPE_FIELD_ID : {FALSE},
            WEBHOOK_SECRET : {FALSE}]
  /\ foreign = 0
  /\ faults = 0
  /\ Constructed
  /\ ImagesIdle /\ RouteIdle /\ WebhookIdle /\ OptionsIdle
  /\ tableHtml \in Tables
  /\ formatted = [returned |-> FALSE, text |-> <<>>]

\* renderMarkdown replaces the table by <pre> + the converted text + </pre>.
ConvertTable ==
  /\ ~formatted.returned
  /\ formatted' = [returned |-> TRUE, text |-> convertTableToPreformatted(tableHtml)]
  /\ UNCHANGED <<mainVars, webhookVars, optionVars, faults, imageVars, routeVars, tableHtml>>

NextTable == ConvertTable

SpecTable == InitTable /\ [][NextTable]_vars

\* ------------------------------------------------------------- restarts
\* The lock is held by the constructor while it loads the cached gid.
Ctor == NumDeliveries + 1

\* The runtime evicts the idle object, or the process restarts; the next
\* request constructs the object again.  The constructor enters
\* blockConcurrencyWhile; this.cachedTaskGid is not yet assigned.
Construct ==
  /\ incarnation.restarts < MaxRestarts
  /\ GateOpen
  /\ \A d \in Deliveries : pc[d] \in {"idle", "done"}
  /\ incarnation' = [incarnation EXCEPT !.restarts = @ + 1]
  /\ lock' = Ctor
  /\ cachedTaskGid' = NoGid
  /\ UNCHANGED <<sideVars, env, foreign, storage, remoteVars, pc, ev, attempt, hint, cur, histVars,
                 faults, deletes>>

\* this.cachedTaskGid = await this.state.storage.get('asanaTaskGid'); the
\* gate opens.
LoadCachedTaskGid ==
  /\ lock = Ctor
  /\ cachedTaskGid' = storage
  /\ lock' = 0
  /\ UNCHANGED <<sideVars, incarnation, env, foreign, storage, remoteVars, pc, ev, attempt, hint, cur,
                 histVars, faults, deletes>>

\* The project id is configured, the source-URL field may be; at most one
\* remote or storage call fails transiently.
InitRestart ==
  /\ env \in [ASANA_PROJECT_ID : {TRUE}, GITHUB_URL_FIELD_ID : BOOLEAN, LABELS_FIELD_ID : {FALSE},
            REPOSITORY_FIELD_ID : {FALSE}, CREATOR_FIELD_ID : {FALSE}, ISSUE_TYPE_FIELD_ID : {FALSE},
            WEBHOOK_SECRET : {FALSE}]
  /\ foreign = 0
  /\ faults = MaxFaults - 1
  /\ Constructed
  /\ TableIdle /\ ImagesIdle /\ RouteIdle /\ WebhookIdle /\ OptionsIdle

NextRestart ==
  \/ \E d \in Deliveries : fetch(d)
  \/ \E d \in Deliveries, e \in Events : handleEvent(d, e)
  \/ \E d \in Deliveries : AttemptStart(d)
  \/ \E d \in Deliveries : verifyTaskExists(d)
  \/ \E d \in Deliveries : findTaskByGithubUrl(d)
  \/ \E d \in Deliveries : updateTaskCustomFields(d)
  \/ \E d \in Deliveries : createTaskWithCustomFields(d)
  \/ \E d \in Deliveries : updateTaskDescription(d)
  \/ \E d \in Deliveries : markTaskComplete(d)
  \/ \E d \in Deliveries : StoreAndReturn(d)
  \/ \E d \in Deliveries : BackoffElapsed(d)
  \/ Construct
  \/ LoadCachedTaskGid

SpecRestart == InitRestart /\ [][NextRestart]_vars

\* ------------------------------------------------- worker: routing by entity
\* Webhook payloads: an issue event and a comment event of issue "A", an
\* event of pull request "B" in the same repository, and a payload that
\* names neither an issue nor a pull request.
Payloads ==
  { [issue |-> "A", pull_request |-> "none", repository |-> "r", comment |-> FALSE],
    [issue |-> "A", pull_request |-> "none", repository |-> "r", comment |-> TRUE],
    [issue |-> "none", pull_request |-> "B", repository |-> "r", comment |-> FALSE],
    [issue |-> "none", pull_request |-> "none", repository |-> "r", comment |-> FALSE] }

NoPayload == [issue |-> "none", pull_request |-> "none", repository |-> "none", comment |-> FALSE]

\* Mutation of IssueUrl: the object is chosen by the repository.
IssueUrlOfRepository(payload) == payload.repository

\* const issueUrl = payload.issue?.html_url || payload.pull_request?.html_url
IssueUrl(payload) == IF payload.issue # "none" THEN payload.issue ELSE payload.pull_request

\* Request URLs, as the sequences of their parts: the deployed worker, and
\* the deployed worker addressed with a query string that holds the word
\* localhost.
UrlWorker == <<"https:", "sync.workers.dev">>
UrlWithLocalhost == <<"https:", "sync.workers.dev", "?", "localhost">>

\* request.url.includes('localhost') || request.url.includes('127.0.0.1')
isLocalDev(url) == Includes(url, <<"localhost">>) \/ Includes(url, <<"127.0.0.1">>)

\* verifyWebhookSignature(body, signature, secret): the header equals the
\* HMAC of the body under the secret.  The x-hub-signature-256 header of a
\* request is "missing", "invalid" or "valid".
verifyWebhookSignature(signature) == signature = "valid"

\* isSupportedEventType(eventType)
GITHUB_EVENT_TYPES == {"issues", "issue_comment", "pull_request", "pull_request_review_comment"}
isSupportedEventType(eventType) == eventType \in GITHUB_EVENT_TYPES

HttpRequest(method, url, signature, eventType, payload) ==
  [method |-> method, url |-> url, signature |-> signature, eventType |-> eventType,
   payload |-> payload]

\* The x-github-event header GitHub sends with a payload.
EventTypeOf(payload) ==
  IF payload.comment THEN "issue_comment"
  ELSE IF payload.pull_request # "none" THEN "pull_request" ELSE "issues"

IssueA == [issue |-> "A", pull_request |-> "none", repository |-> "r", comment |-> FALSE]

\* The requests the worker receives: GitHub's signed deliveries of the
\* payloads; a delivery with no or a wrong signature; an unsigned request
\* sent to a URL that holds the word localhost; a GET; an event type that
\* is not supported.
HttpRequests ==
  {HttpRequest("POST", UrlWorker, "valid", EventTypeOf(payload), payload) : payload \in Payloads}
    \cup {HttpRequest("POST", UrlWorker, signature, "issues", IssueA) :
            signature \in {"missing", "invalid"}}
    \cup {HttpRequest("POST", UrlWithLocalhost, "missing", "issues", IssueA),
          HttpRequest("GET", UrlWorker, "valid", "issues", IssueA),
          HttpRequest("POST", UrlWorker, "valid", "push", IssueA)}

NoHttpRequest == HttpRequest("none", <<>>, "none", "none", NoPayload)

\* env.ISSUE_COORDINATOR.idFromName(name): one object per name, each with its
\* own memory, storage and gate.
ObjectNames == {"A", "B", "r"}
NoObject == [cachedTaskGid |-> NoGid, storage |-> NoGid, lock |-> 0]
NoRequest == [request |-> NoHttpRequest, payload |-> NoPayload, pc |-> "new", object |-> "none",
              attempt |-> 0, status |-> 0]

\* The remote task that mirrors an entity.
TaskOf(payload) ==
  CASE payload.issue = "A" -> 1
    [] payload.pull_request = "B" -> 2
    [] OTHER -> NoGid

\* The webhook secret is configured or not.
InitRoute ==
  /\ env \in [ASANA_PROJECT_ID : {TRUE}, GITHUB_URL_FIELD_ID : {TRUE}, LABELS_FIELD_ID : {FALSE},
            REPOSITORY_FIELD_ID : {FALSE}, CREATOR_FIELD_ID : {FALSE}, ISSUE_TYPE_FIELD_ID : {FALSE},
            WEBHOOK_SECRET : BOOLEAN]
  /\ foreign = 0
  /\ faults = MaxFaults - 1
  /\ Constructed
  /\ TableIdle /\ ImagesIdle /\ WebhookIdle /\ OptionsIdle
  /\ objects = [o \in ObjectNames |-> NoObject]
  /\ requests = [r \in Deliveries |-> NoRequest]

\* The worker's fetch: 405 unless POST; with a secret configured and not
\* isLocalDev, 401 for a missing or invalid signature; 400 without an issue
\* or pull request URL and for an unsupported event type; otherwise the
\* request is forwarded to the object named by the URL.
WorkerFetch(r, request) ==
  /\ requests[r].pc = "new"
  /\ LET verified == ~(env.WEBHOOK_SECRET /\ ~isLocalDev(request.url))
                       \/ verifyWebhookSignature(request.signature)
         payload == request.payload
         answer(status) == [requests[r] EXCEPT !.request = request, !.pc = "done", !.status = status] IN
     requests' = [requests EXCEPT ![r] =
       IF request.method # "POST" THEN answer(405)
       ELSE IF ~verified THEN answer(401)
       ELSE IF IssueUrl(payload) = "none" THEN [answer(400) EXCEPT !.payload = payload]
       ELSE IF ~isSupportedEventType(request.eventType) THEN [answer(400) EXCEPT !.payload = payload]
       ELSE [@ EXCEPT !.request = request, !.payload = payload, !.pc = "routed",
                      !.object = IssueUrl(payload)]]
  /\ UNCHANGED <<mainVars, webhookVars, optionVars, faults, tableVars, imageVars, objects>>

\* The object's handleEvent enters blockConcurrencyWhile of its own state.
ObjectHandleEvent(r) ==
  /\ requests[r].pc = "routed"
  /\ objects[requests[r].object].lock = 0
  /\ objects' = [objects EXCEPT ![requests[r].object].lock = r]
  /\ requests' = [requests EXCEPT ![r].pc = "running"]
  /\ UNCHANGED <<mainVars, webhookVars, optionVars, faults, tableVars, imageVars>>

\* One attempt of the retry loop in that object: it succeeds and stores the
\* entity's task gid in the object's memory and storage, or it fails and
\* the loop waits for the backoff or gives up.
ObjectAttempt(r) ==
  /\ requests[r].pc = "running"
  /\ UNCHANGED <<mainVars, webhookVars, optionVars, tableVars, imageVars>>
  /\ LET o == requests[r].object IN
     \/ /\ objects' = [objects EXCEPT ![o] = [cachedTaskGid |-> TaskOf(requests[r].payload),
                                              storage |-> TaskOf(requests[r].payload),
                                              lock |-> 0]]
        /\ requests' = [requests EXCEPT ![r].pc = "done", ![r].status = 200]
        /\ UNCHANGED faults
     \/ /\ MayFail
        /\ faults' = faults + 1
        /\ IF requests[r].attempt = maxRetries
             THEN /\ objects' = [objects EXCEPT ![o].lock = 0]
                  /\ requests' = [requests EXCEPT ![r].pc = "done", ![r].status = 500]
             ELSE /\ requests' = [requests EXCEPT ![r].pc = "backoff"]
                  /\ UNCHANGED objects

\* The backoff timer of that object's retry loop fires.
ObjectBackoffElapsed(r) ==
  /\ requests[r].pc = "backoff"
  /\ requests' = [requests EXCEPT ![r].pc = "running", ![r].attempt = @ + 1]
  /\ UNCHANGED <<mainVars, webhookVars, optionVars, faults, tableVars, imageVars, objects>>

NextRoute ==
  \/ \E r \in Deliveries, request \in HttpRequests : WorkerFetch(r, request)
  \/ \E r \in Deliveries : ObjectHandleEvent(r)
  \/ \E r \in Deliveries : ObjectAttempt(r)
  \/ \E r \in Deliveries : ObjectBackoffElapsed(r)

SpecRoute == InitRoute /\ [][NextRoute]_vars

\* ------------------------------------------- WebhookHandler and IssueSync
\* x-github-event values and payload.action values of the webhooks GitHub
\* sends: the four supported event types and two others.
WebhookEventTypes == GITHUB_EVENT_TYPES \cup {"push", "pull_request_review"}
WebhookActions == {"opened", "created", "edited", "deleted", "closed"}

\* The payload GitHub sends with an event: issue events and issue comments
\* carry payload.issue, pull request events and review comments carry
\* payload.pull_request.
WebhookPayload(eventType, action) ==
  [action |-> action,
   issue |-> IF eventType \in {"issues", "issue_comment"} THEN "A" ELSE "none",
   pull_request |-> IF eventType \in {"pull_request", "pull_request_review_comment",
                                      "pull_request_review"} THEN "B" ELSE "none",
   state |-> IF action = "closed" THEN "closed" ELSE "open"]

\* A step of the three-step protocol, as IssueSync.handleEvent calls it.
SyncStep(op, url, type, completed) == [op |-> op, url |-> url, type |-> type, completed |-> completed]

\* IssueSync.handleEvent(eventType, payload) when every remote call answers:
\* the steps it calls and what it returns, or the error it throws.
IssueSync_handleEvent(eventType, payload) ==
  LET isPullRequest == eventType \in {"pull_request", "pull_request_review_comment"}
      comment == isComment([type |-> eventType])
      source == IF isPullRequest THEN payload.pull_request ELSE payload.issue
      type == IF isPullRequest THEN "PR" ELSE "Issue"
      actionName ==
        IF comment /\ payload.action = "created"
          THEN (IF eventType = "pull_request_review_comment" THEN "pr_comment_created"
                                                             ELSE "comment_created")
          ELSE payload.action IN
  IF source = "none"
    THEN [threw |-> TRUE,
          error |-> IF isPullRequest THEN "Unable to find GitHub pull request URL"
                                     ELSE "Unable to find GitHub issue URL",
          calls |-> <<>>,
          result |-> [status |-> "none"]]
    ELSE [threw |-> FALSE,
          error |-> "none",
          calls |-> <<SyncStep("ensureTaskExists", source, type, FALSE),
                      SyncStep("updateTaskDescription", source, type, FALSE)>>
                      \o (IF comment THEN <<>>
                          ELSE <<SyncStep("markTaskComplete", source, type, payload.state = "closed")>>),
          result |-> [status |-> "processed", action |-> actionName,
                      result |-> IF comment THEN "permalink" ELSE "completion",
                      taskGid |-> source]]

\* The convenience entry points of IssueSync.
handleIssueEvent(payload) == IssueSync_handleEvent("issues", payload)
handleCommentEvent(payload) == IssueSync_handleEvent("issue_comment", payload)
handlePullRequestEvent(payload) == IssueSync_handleEvent("pull_request", payload)
handlePullRequestCommentEvent(payload) == IssueSync_handleEvent("pull_request_comment", payload)

\* Mutation of HandlerFor: comment events are dispatched whatever their action.
HandlerForAnyAction(eventType, action) ==
  CASE eventType = "issues" -> "handleIssueEvent"
    [] eventType = "pull_request" -> "handlePullRequestEvent"
    [] eventType = "issue_comment" -> "handleCommentEvent"
    [] eventType = "pull_request_review_comment" -> "handlePullRequestCommentEvent"
    [] OTHER -> "none"

\* The chain of ifs of handleWebhook: the IssueSync method it calls.
HandlerFor(eventType, action) ==
  IF eventType = "issues" THEN "handleIssueEvent"
  ELSE IF eventType = "pull_request" THEN "handlePullRequestEvent"
  ELSE IF eventType = "issue_comment" /\ action = "created" THEN "handleCommentEvent"
  ELSE IF eventType = "pull_request_review_comment" /\ action = "created"
    THEN "handlePullRequestCommentEvent"
  ELSE "none"

\* this.issueSync[handler](payload)
Invoke(handler, payload) ==
  CASE handler = "handleIssueEvent" -> handleIssueEvent(payload)
    [] handler = "handlePullRequestEvent" -> handlePullRequestEvent(payload)
    [] handler = "handleCommentEvent" -> handleCommentEvent(payload)
    [] handler = "handlePullRequestCommentEvent" -> handlePullRequestCommentEvent(payload)

\* return { status: 'ignored', event: eventType, action }
Ignored(eventType, action) ==
  [threw |-> FALSE, error |-> "none", calls |-> <<>>,
   result |-> [status |-> "ignored", event |-> eventType, action |-> action]]

InitWebhook ==
  /\ env \in [ASANA_PROJECT_ID : {TRUE}, GITHUB_URL_FIELD_ID : {TRUE}, LABELS_FIELD_ID : {FALSE},
            REPOSITORY_FIELD_ID : {FALSE}, CREATOR_FIELD_ID : {FALSE}, ISSUE_TYPE_FIELD_ID : {FALSE},
            WEBHOOK_SECRET : {FALSE}]
  /\ foreign = 0
  /\ faults = 0
  /\ Constructed
  /\ TableIdle /\ ImagesIdle /\ RouteIdle /\ OptionsIdle
  /\ dispatched = <<>>

\* handleWebhook(payload, headers): the handler called, if any, and what
\* handleWebhook returns or throws.
handleWebhook(eventType, action) ==
  /\ Len(dispatched) < NumDeliveries
  /\ LET payload == WebhookPayload(eventType, action)
         handler == HandlerFor(eventType, payload.action) IN
     dispatched' = Append(dispatched,
       [eventType |-> eventType,
        payload |-> payload,
        handlers |-> IF handler = "none" THEN <<>> ELSE <<handler>>,
        outcome |-> IF handler = "none" THEN Ignored(eventType, payload.action)
                                        ELSE Invoke(handler, payload)])
  /\ UNCHANGED <<mainVars, faults, tableVars, imageVars, routeVars, optionVars>>

NextWebhook == \E eventType \in WebhookEventTypes, action \in WebhookActions : handleWebhook(eventType, action)

SpecWebhook == InitWebhook /\ [][NextWebhook]_vars

\* ---------------------------------------------- custom field enum options
\* Values to resolve to enum options: a repository or type name for a
\* single-select field, GitHub label names for the multi-select field.  A
\* list of labels may hold the same name twice.
ValueLists == {<<"bug">>, <<"bug", "bug">>, <<"ui", "bug">>}

\* A call of getCustomFieldForProject (multi = FALSE) or
\* getMultiEnumOptionsForField (multi = TRUE) by the sync of one entity:
\* its arguments, the customField it fetched, the position of its loop, the
\* option gids collected, what happened to each value, and how it ended.
NoLookup ==
  [pc |-> "idle", multi |-> FALSE, values |-> <<>>, enum_options |-> <<>>, i |-> 1,
   optionGids |-> <<>>, log |-> <<>>, fetched |-> FALSE, error |-> "none"]

\* One field of the project, single-select or multi-select (multi_enum),
\* with no option or with option "ui"; the syncs of the entities run in
\* their own coordinator objects, side by side; at most one call fails
\* transiently.
InitOptions ==
  /\ env \in [ASANA_PROJECT_ID : {TRUE}, GITHUB_URL_FIELD_ID : {FALSE}, LABELS_FIELD_ID : {TRUE},
            REPOSITORY_FIELD_ID : {TRUE}, CREATOR_FIELD_ID : {FALSE}, ISSUE_TYPE_FIELD_ID : {FALSE},
            WEBHOOK_SECRET : {FALSE}]
  /\ foreign = 0
  /\ faults = MaxFaults - 1
  /\ Constructed
  /\ TableIdle /\ ImagesIdle /\ RouteIdle /\ WebhookIdle
  /\ enumOptions \in {<<>>, <<"ui">>}
  /\ \E multi \in BOOLEAN : lookups = [p \in Deliveries |-> [NoLookup EXCEPT !.multi = multi]]

\* buildCustomFields calls the helper of the field's kind with the field's
\* gid and the value (single-select) or the list of values (multi-select).
StartLookup(p, values) ==
  /\ lookups[p].pc = "idle"
  /\ ~lookups[p].multi => Len(values) = 1
  /\ lookups' = [lookups EXCEPT ![p].pc = "fetch", ![p].values = values]
  /\ UNCHANGED <<mainVars, faults, tableVars, imageVars, routeVars, webhookVars, enumOptions>>

\* The catch block of the helper: getCustomFieldForProject rethrows the
\* error, getMultiEnumOptionsForField returns [].
CatchLookupError(l, error) == [l EXCEPT !.pc = "done", !.optionGids = <<>>, !.error = error]

\* const customField = await asanaAPI.getCustomField(customFieldGid, opts)
getCustomField(p) ==
  /\ lookups[p].pc = "fetch"
  /\ \/ /\ lookups' = [lookups EXCEPT ![p].pc = "loop", ![p].enum_options = enumOptions,
                                      ![p].fetched = TRUE]
        /\ UNCHANGED faults
     \/ /\ MayFail
        /\ faults' = faults + 1
        /\ lookups' = [lookups EXCEPT ![p] = CatchLookupError(@, "transient")]
  /\ UNCHANGED <<mainVars, tableVars, imageVars, routeVars, webhookVars, enumOptions>>

\* customField.enum_options?.find(option => option.name === value): the gid
\* of the first option of that name in the field as fetched (0: none).
existingOption(enum_options, value) ==
  LET hits == {g \in 1..Len(enum_options) : enum_options[g] = value} IN
  IF hits = {} THEN 0 ELSE CHOOSE g \in hits : \A h \in hits : g <= h

\* One value is resolved: the gid of the existing option, or
\* createEnumOptionForCustomField.  The creation succeeds, fails
\* transiently, or, when the field meanwhile has an option of that name,
\* may be rejected by the service as a duplicate.
resolveValue(p) ==
  /\ lookups[p].pc = "loop"
  /\ UNCHANGED <<mainVars, tableVars, imageVars, routeVars, webhookVars>>
  /\ LET l == lookups[p]
         value == l.values[l.i]
         existing == existingOption(l.enum_options, value)
         next == IF l.i = Len(l.values) THEN "done" ELSE "loop"
         gid == Len(enumOptions) + 1 IN
     IF existing # 0
       THEN /\ lookups' = [lookups EXCEPT ![p] =
                 [l EXCEPT !.optionGids = Append(@, existing),
                           !.log = Append(@, [value |-> value, op |-> "matched", gid |-> existing]),
                           !.i = @ + 1, !.pc = next]]
            /\ UNCHANGED <<enumOptions, faults>>
       ELSE \/ /\ enumOptions' = Append(enumOptions, value)
               /\ lookups' = [lookups EXCEPT ![p] =
                    [l EXCEPT !.optionGids = Append(@, gid),
                              !.log = Append(@, [value |-> value, op |-> "created", gid |-> gid]),
                              !.i = @ + 1, !.pc = next]]
               /\ UNCHANGED faults
            \/ /\ MayFail
               /\ faults' = faults + 1
               /\ lookups' = [lookups EXCEPT ![p] =
                    CatchLookupError([l EXCEPT !.log = Append(@, [value |-> value, op |-> "failed",
                                                                   gid |-> 0])], "transient")]
               /\ UNCHANGED enumOptions
            \/ /\ \E g \in 1..Len(enumOptions) : enumOptions[g] = value
               /\ lookups' = [lookups EXCEPT ![p] =
                    CatchLookupError([l EXCEPT !.log = Append(@, [value |-> value, op |-> "failed",
                                                                   gid |-> 0])], "rejected")]
               /\ UNCHANGED <<enumOptions, faults>>

NextOptions ==
  \/ \E p \in Deliveries, values \in ValueLists : StartLookup(p, values)
  \/ \E p \in Deliveries : getCustomField(p)
  \/ \E p \in Deliveries : resolveValue(p)

SpecOptions == InitOptions /\ [][NextOptions]_vars

\* ======================================================================
\* Properties
\* ======================================================================
\* A delivery is inside handleEvent's exclusive section: running an attempt
\* or sleeping in the retry backoff.
InAttempt(d) == pc[d] \in {"verify", "search", "fields", "create", "describe", "complete", "store"}
InSection(d) == pc[d] \in {"start", "backoff"} \/ InAttempt(d)

\* The per-delivery record of d is still kept (no later delivery has entered).
Recorded(d) == attemptsRun[d] > 0

\* C1: per-entity mutual exclusion.  At most one delivery is inside
\* handleEvent at any time: while one delivery runs an attempt or sleeps in
\* its retry backoff, every other delivery is either not yet started, still
\* waiting to enter, or already finished; the one inside holds the section.
C1_MutualExclusion ==
  \A d1, d2 \in Deliveries :
    InSection(d1) => /\ lock = d1
                     /\ (d2 # d1 => pc[d2] \in {"idle", "parsing", "done"})

\* A second delivery has arrived and waits while the first sleeps in backoff.
C1_Witness ==
  \E d1, d2 \in Deliveries : d1 # d2 /\ pc[d1] = "backoff" /\ pc[d2] = "parsing"

\* C2: strict FIFO.  Every delivery that arrived earlier (lower index) has
\* finished before a later one is inside handleEvent or done.
C2_StrictFifo ==
  \A i, j \in Deliveries :
    (i < j /\ (InSection(j) \/ pc[j] = "done")) => pc[i] = "done"

\* C3: bounded retry with backoff.  At most 3 orchestrator runs per delivery;
\* run k+1 starts only after run k failed and its wait elapsed; the waits are
\* 5000 ms then 10000 ms; no wait follows the third failure; nothing runs
\* after a success.
C3_BoundedRetry ==
  \A d \in Deliveries :
    /\ attemptsRun[d] <= 3
    /\ Len(waits[d]) <= 2
    /\ (Len(waits[d]) >= 1 => waits[d][1] = 5000)
    /\ (Len(waits[d]) >= 2 => waits[d][2] = 10000)
    /\ (InAttempt(d) \/ pc[d] = "backoff" => attemptsRun[d] = Len(waits[d]) + 1)
    /\ (InAttempt(d) => failures[d] = attemptsRun[d] - 1)
    /\ (pc[d] = "backoff" => failures[d] = attemptsRun[d])
    /\ (pc[d] = "start" => attemptsRun[d] = Len(waits[d]) /\ failures[d] = attemptsRun[d])
    /\ (pc[d] = "done" /\ Recorded(d) =>
          /\ attemptsRun[d] = Len(waits[d]) + 1
          /\ (response[d].status = 500 => failures[d] = 3 /\ attemptsRun[d] = 3)
          /\ (response[d].status = 200 => failures[d] = attemptsRun[d] - 1))

\* A delivery failed three times, having waited 5 s and then 10 s.
C3_Witness ==
  \E d \in Deliveries :
    /\ pc[d] = "done" /\ response[d].status = 500
    /\ attemptsRun[d] = 3 /\ waits[d] = <<5000, 10000>>

\* C4: retry exhaustion is surfaced.  A delivery whose three attempts all
\* failed ends with HTTP 500 carrying the error of the third attempt; a
\* delivery ends with a success response only after an attempt that
\* completed every step of the protocol (resolve, describe and, unless it is
\* a comment event, complete).
C4_ExhaustionSurfaced ==
  \A d \in Deliveries :
    pc[d] = "done" =>
      /\ response[d].status \in {200, 500}
      /\ (Recorded(d) /\ failures[d] = 3 =>
            /\ response[d].status = 500
            /\ response[d].error # "none"
            /\ response[d].error = lastErr[d])
      /\ (Recorded(d) /\ response[d].status = 200 =>
            /\ failures[d] < 3
            /\ response[d].taskGid # NoGid
            /\ steps[d] = IF isComment(ev[d]) THEN {"resolve", "describe"}
                                              ELSE {"resolve", "describe", "complete"})

\* Three failed attempts with different errors: the storage write, then
\* remote calls.
C4_Witness ==
  \E d \in Deliveries :
    /\ pc[d] = "done" /\ failures[d] = 3
    /\ response[d].status = 500 /\ response[d].error = "asana"
    /\ cachedTaskGid # storage

\* C5: failures never mutate the cached id.  A delivery whose three attempts
\* all failed leaves cachedTaskGid, in memory and in storage, equal to its
\* value when the delivery entered.
C5_FailureLeavesCache ==
  \A d \in Deliveries :
    (pc[d] = "done" /\ Recorded(d) /\ response[d].status = 500) =>
      /\ cachedTaskGid = entry.mem
      /\ storage = entry.stored

\* C6: the cached id is persisted on success.  When handleEvent has returned
\* task id g and no later delivery has entered, the in-memory cachedTaskGid
\* and the storage entry both equal g.
C6_PersistedOnSuccess ==
  \A d \in Deliveries :
    (pc[d] = "done" /\ Recorded(d) /\ response[d].status = 200) =>
      /\ cachedTaskGid = response[d].taskGid
      /\ storage = response[d].taskGid

\* C7: convergence under duplication.  With a project id configured and no
\* out-of-band deletion, when every delivery had arrived before the first one
\* entered handleEvent (the others still wait to enter) and the one being
\* processed is an 'opened' event for an entity with no task yet, at most one
\* createTask call has succeeded.
C7_OneTaskUnderDuplication ==
  \A d \in Deliveries :
    (/\ env.ASANA_PROJECT_ID
     /\ deletes = 0
     /\ InSection(d) /\ ev[d].action = "opened" /\ entry.mem = NoGid
     /\ \A k \in Deliveries : k # d => pc[k] = "parsing")
    => nextGid <= 2

\* C8: idempotence.  When the same event has been processed twice in
\* sequence, both times successfully and with no out-of-band change, both
\* runs returned the same task id and the second run created no task.
C8_Idempotent ==
  \A d1, d2 \in Deliveries :
    (/\ d1 # d2 /\ pc[d1] = "done" /\ pc[d2] = "done" /\ Recorded(d2)
     /\ ev[d1] = ev[d2] /\ deletes = 0
     /\ response[d1].status = 200 /\ response[d2].status = 200)
    => /\ response[d1].taskGid = response[d2].taskGid
       /\ created[d2] = 0

\* C9: recreate after delete.  When the task recorded in cachedTaskGid had
\* been deleted before a delivery entered and that delivery succeeded, it
\* created exactly one task, returned that task's id, and the cached id in
\* memory and in storage equals the returned id.
C9_RecreateAfterDelete ==
  \A d \in Deliveries :
    (pc[d] = "done" /\ Recorded(d) /\ response[d].status = 200 /\ entry.stale) =>
      /\ created[d] = 1
      /\ response[d].taskGid # entry.mem
      /\ cachedTaskGid = response[d].taskGid
      /\ storage = response[d].taskGid

\* C10: retrying a partially completed attempt is safe.  With no out-of-band
\* deletion, at most one task is ever created for the entity, across all
\* attempts of a delivery and across the deliveries that follow.
C10_AtMostOneTaskCreated ==
  deletes = 0 => nextGid <= 2

\* The remote operations some call of the sequence cs performed.
Ops(cs) == { cs[i].op : i \in 1..Len(cs) }

\* The tasks the calls of cs addressed.
Targets(cs) == { cs[i].gid : i \in 1..Len(cs) } \ {NoGid}

\* The running attempt of d has resolved its task.
Resolved(d) == InAttempt(d) /\ "resolve" \in steps[d]

\* C11: hint-first resolution.  When an attempt was given a hint that refers
\* to a task existing remotely, the resolver returns the hinted task and the
\* attempt has issued neither the project listing nor a createTask call.
C11_HintFirst ==
  \A d \in Deliveries :
    (Resolved(d) /\ hint[d] # NoGid /\ remote[hint[d]].exists) =>
      /\ cur[d] = hint[d]
      /\ Ops(calls[d]) \cap {"getTasksForProject", "createTask"} = {}

\* C12: a stale hint is never trusted and is not an error.  When the task
\* named by the cached id had been deleted before the delivery entered: no
\* call of the delivery addresses the stale id; the resolver goes on to the
\* search (when a source-URL field is configured) and, with nothing found, to
\* creation; the resolved task is an existing task other than the stale one;
\* and an attempt fails only in a remote or storage call made after the
\* verification.
C12_StaleHintNotTrusted ==
  \A d \in Deliveries :
    (entry.stale /\ env.ASANA_PROJECT_ID) =>
      /\ entry.mem \notin Targets(calls[d])
      /\ (Resolved(d) => cur[d] # entry.mem /\ remote[cur[d]].exists)
      /\ (pc[d] \in {"fields", "create"} /\ env.GITHUB_URL_FIELD_ID =>
            "getTasksForProject" \in Ops(calls[d]))
      /\ (pc[d] = "create" => cur[d] = NoGid)
      /\ (pc[d] = "backoff" => calls[d] # <<>>)

\* After the cached task was deleted, a delivery created a new task and
\* returned it.
C12_Witness ==
  \E d \in Deliveries :
    /\ entry.stale /\ pc[d] = "done" /\ Recorded(d)
    /\ response[d].status = 200 /\ created[d] = 1
    /\ response[d].taskGid # entry.mem

\* The project holds a task whose source-URL field equals the entity's URL.
MirrorExists ==
  \E i \in 1..Len(project) : remote[project[i]].exists /\ remote[project[i]].url = "this"

\* C13: the search finds the existing mirror.  When the hint is absent or
\* stale, the listing call of the attempt succeeded and the project holds a
\* task whose source-URL field equals the entity's URL, the resolver does
\* not go on to create a task, whatever the size of the project: it is about
\* to create one only when the project holds no such task.
C13_SearchFindsMirror ==
  \A d \in Deliveries :
    (/\ pc[d] = "create"
     /\ hint[d] = NoGid \/ ~remote[hint[d]].exists
     /\ Call("getTasksForProject", NoGid, TRUE) \in { calls[d][i] : i \in 1..Len(calls[d]) })
    => ~MirrorExists

\* Delivery d has ended with a success response, its record is still kept
\* and the task it returned still exists.
Succeeded(d) ==
  /\ pc[d] = "done" /\ Recorded(d)
  /\ response[d].status = 200
  /\ remote[response[d].taskGid].exists

\* C14: attributes are refreshed on every sync of an existing task.  After a
\* successful sync that found the task (created none), the task's source-URL
\* and labels attributes, where configured, equal those of the event just
\* processed, also when the event carries no label.
C14_AttributesRefreshed ==
  \A d \in Deliveries :
    (Succeeded(d) /\ created[d] = 0) =>
      /\ (env.GITHUB_URL_FIELD_ID => remote[response[d].taskGid].url = "this")
      /\ (env.LABELS_FIELD_ID => remote[response[d].taskGid].labels = ev[d].labels)

\* C15: a failing identity attribute is non-fatal.  When the write of the
\* identity attributes to an existing task was the last call of an attempt
\* and failed, the attempt goes on with the description step for that task.
C15_AttributeFailureNonFatal ==
  \A d \in Deliveries :
    LET n == Len(calls[d]) IN
    (/\ n > 0
     /\ calls[d][n].op = "custom_fields" /\ ~calls[d][n].ok
     /\ remote[calls[d][n].gid].exists)
    => /\ pc[d] = "describe"
       /\ cur[d] = calls[d][n].gid

\* The protocol step a remote call belongs to: 1 resolve, 2 push the
\* description, 3 set completion.
StepOf(op) ==
  CASE op \in {"getTasksForProject", "getCustomField", "createTask", "custom_fields"} -> 1
    [] op \in {"html_notes", "notes"} -> 2
    [] op = "completed" -> 3

\* C16: fixed three-step protocol.  The remote calls of an attempt occur in
\* the order resolve, description, completion and address one task; a
\* delivery that ended with success has resolved, has pushed the description
\* successfully, has set completion exactly when the event is not a comment,
\* and every call that names a task names the one returned as taskGid.
C16_ThreeStepProtocol ==
  \A d \in Deliveries :
    LET cs == calls[d] IN
    /\ \A i, j \in 1..Len(cs) : i < j => StepOf(cs[i].op) <= StepOf(cs[j].op)
    /\ Cardinality(Targets(cs)) <= 1
    /\ (pc[d] = "done" /\ Recorded(d) /\ response[d].status = 200 =>
          /\ Targets(cs) = {response[d].taskGid}
          /\ \E i \in 1..Len(cs) : StepOf(cs[i].op) = 1
          /\ \E i \in 1..Len(cs) : StepOf(cs[i].op) = 2 /\ cs[i].ok
          /\ (~isComment(ev[d]) <=> Call("completed", response[d].taskGid, TRUE) \in
                                       { cs[i] : i \in 1..Len(cs) }))

\* A 'closed' event was synced to a task that already existed, and a comment
\* event was synced as well.
C16_Witness ==
  \E d1, d2 \in Deliveries :
    /\ pc[d1] = "done" /\ pc[d2] = "done" /\ Recorded(d2)
    /\ response[d1].status = 200 /\ response[d2].status = 200
    /\ isComment(ev[d1]) /\ ev[d2].action = "closed"
    /\ created[d2] = 0
    /\ Len(calls[d2]) >= 4

\* C17: completion follows the GitHub state.  After a successfully processed
\* non-comment event, whatever its action, the returned task's completed
\* flag equals (state = 'closed').
C17_CompletionFollowsState ==
  \A d \in Deliveries :
    (Succeeded(d) /\ ~isComment(ev[d])) =>
      remote[response[d].taskGid].completed = (ev[d].state = "closed")

\* A 'closed' event completed the task and a following 'reopened' event with
\* state open set the same task back to incomplete.
C17_Witness ==
  \E d1, d2 \in Deliveries :
    /\ pc[d1] = "done" /\ response[d1].status = 200 /\ ev[d1].action = "closed"
    /\ Succeeded(d2) /\ ev[d2].action = "reopened" /\ created[d2] = 0
    /\ response[d2].taskGid = response[d1].taskGid
    /\ ~remote[response[d2].taskGid].completed

\* C18: comment events leave completion untouched.  No step taken while a
\* comment event (issue_comment or pull_request_review_comment) is being
\* processed changes the completed flag of an existing task, whatever state
\* the comment's payload carries.
C18_CommentKeepsCompletion ==
  [][\A d \in Deliveries :
       (lock = d /\ ev[d].type \in {"issue_comment", "pull_request_review_comment"}) =>
         \A g \in Gids : remote[g].exists => remote'[g].completed = remote[g].completed]_vars

\* A comment whose payload says 'closed' was synced to an existing task that
\* is still incomplete.
C18_Witness ==
  \E d \in Deliveries :
    /\ Succeeded(d) /\ ev[d].type = "issue_comment" /\ ev[d].state = "closed"
    /\ created[d] = 0
    /\ ~remote[response[d].taskGid].completed

\* C19: the title stays consistent.  After a successfully processed event
\* for an entity whose task already existed (the sync created none), the
\* task's name equals the title carried by that event.
C19_TitleConsistent ==
  \A d \in Deliveries :
    (Succeeded(d) /\ created[d] = 0) =>
      remote[response[d].taskGid].name = ev[d].title

C21_Terminates ==
  \A d \in Deliveries : (pc[d] = "start") ~> (pc[d] = "done")

\* C22: a fatal configuration error is never retried.  A delivery that fails
\* with the missing-project-id error has run exactly one attempt, waits for no
\* backoff, and ends with that error.
C22_ConfigErrorNotRetried ==
  \A d \in Deliveries :
    lastErr[d] = "config" =>
      /\ attemptsRun[d] = 1
      /\ waits[d] = <<>>
      /\ pc[d] = "done"
      /\ response[d].status = 500 /\ response[d].error = "config"

\* The custom fields whose ids are configured.
Configured ==
  {f \in {"repository"} : env.REPOSITORY_FIELD_ID}
    \cup {f \in {"creator"} : env.CREATOR_FIELD_ID}
    \cup {f \in {"url"} : env.GITHUB_URL_FIELD_ID}
    \cup {f \in {"type"} : env.ISSUE_TYPE_FIELD_ID}
    \cup {f \in {"labels"} : env.LABELS_FIELD_ID}

\* C23: every custom field is optional.  Only configured fields are ever
\* written to a task and only configured option fields are looked up; with
\* no field id configured a delivery makes no option lookup and no
\* custom-field update, and it ends in success on a task it created with
\* name and project only, whose description it has set.
C23_FieldsOptional ==
  /\ \A g \in Gids : remote[g].exists => remote[g].custom \subseteq Configured
  /\ \A d \in Deliveries :
       LET cs == calls[d] IN
       /\ Cardinality({i \in 1..Len(cs) : cs[i].op = "getCustomField"})
            <= Cardinality(Configured \cap {"repository", "type", "labels"})
       /\ (Configured = {} => Ops(cs) \cap {"getCustomField", "custom_fields"} = {})
       /\ (Configured = {} /\ pc[d] = "done" /\ Recorded(d) =>
             /\ response[d].status = 200
             /\ created[d] >= 1
             /\ remote[response[d].taskGid].custom = {}
             /\ remote[response[d].taskGid].name = ev[d].title
             /\ remote[response[d].taskGid].notes.src = markdownContent(ev[d]))

\* With nothing configured a delivery created its task without custom fields
\* and set its description.
C23_Witness ==
  /\ Configured = {}
  /\ \E d \in Deliveries :
       /\ pc[d] = "done" /\ response[d].status = 200 /\ created[d] = 1
       /\ remote[response[d].taskGid].custom = {}
       /\ remote[response[d].taskGid].notes.fmt # "none"

\* C24: description fallback.  An html_notes update rejected with an XML
\* parsing error is followed by exactly one further call, a notes update on
\* the same task carrying the same narrative as plain text; when that call
\* succeeds the description step succeeds, when it fails its error is
\* raised.  An html_notes update that failed in any other way is the last
\* call of the attempt and its own error is raised; a notes update is made
\* nowhere else.
C24_PlainTextFallback ==
  \A d \in Deliveries :
    LET cs == calls[d] IN
    \A i \in 1..Len(cs) :
      /\ (cs[i].op = "html_notes" /\ IsXmlParsingError(cs[i].err) =>
            /\ i < Len(cs)
            /\ cs[i + 1].op = "notes" /\ cs[i + 1].gid = cs[i].gid
            /\ (cs[i + 1].ok =>
                  /\ pc[d] \in {"complete", "store"} => "describe" \in steps[d]
                  /\ i + 1 = Len(cs) => pc[d] \in {"complete", "store", "backoff", "start", "done"}
                  /\ remote[cs[i].gid].exists =>
                        remote[cs[i].gid].notes = PlainNotes(markdownContent(ev[d])))
            /\ (~cs[i + 1].ok =>
                  /\ i + 1 = Len(cs)
                  /\ pc[d] \in {"backoff", "start", "done"}
                  /\ lastErr[d] = "fallback"))
      /\ (cs[i].op = "html_notes" /\ ~cs[i].ok /\ ~IsXmlParsingError(cs[i].err) =>
            /\ i = Len(cs)
            /\ pc[d] \in {"backoff", "start", "done"}
            /\ lastErr[d] = "asana")
      /\ (cs[i].op = "notes" =>
            /\ i > 1
            /\ cs[i - 1].op = "html_notes" /\ IsXmlParsingError(cs[i - 1].err))

\* The HTML was rejected and the plain-text fallback failed too: the
\* fallback's error ended the attempt.
C24_Witness ==
  \E d \in Deliveries :
    /\ Len(calls[d]) >= 2
    /\ calls[d][Len(calls[d])].op = "notes" /\ ~calls[d][Len(calls[d])].ok
    /\ calls[d][Len(calls[d]) - 1].err = "xml_parsing_error"
    /\ lastErr[d] = "fallback"

\* C25: image dedup across renders.  The task never holds two attachments
\* for the same image (same hashed filename), and every rendered reference
\* to an image carries the gid of the attachment of that image.
C25_OneUploadPerImage ==
  /\ \A g, h \in 1..Len(attachments) : attachments[g].name = attachments[h].name => g = h
  /\ \A k \in 1..Len(render.updatedContent) :
       render.updatedContent[k].kind = "ref" =>
         attachments[render.updatedContent[k].gid].name = FilenameOf(render.images[k])

\* C26: per-image failure isolation.  A processed image is a plain link to
\* its own source exactly when it sits in a table or its own download or
\* upload failed; every other processed image is a reference to an
\* attachment of that image; the pass runs through all images and the
\* description is sent with the content so produced.
C26_FailureIsolated ==
  /\ \A k \in 1..Len(render.images) :
       LET item == render.updatedContent[k]
           image == render.images[k] IN
       /\ (item.kind = "link" => item.src = image.src /\ (image.isInTable \/ k \in render.failed))
       /\ (item.kind = "ref" => attachments[item.gid].name = FilenameOf(image))
       /\ (k < render.i =>
             item.kind = IF image.isInTable \/ k \in render.failed THEN "link" ELSE "ref")
  /\ (render.phase \in {"cleanup", "rendered", "done"} => render.i = Len(render.images) + 1)
  /\ (render.phase = "done" => render.html_notes = render.updatedContent)

\* The first of two images failed and became a link, the second became a
\* reference, and the description was sent.
C26_Witness ==
  /\ render.phase = "done"
  /\ Len(render.images) = 2
  /\ render.failed = {1}
  /\ render.html_notes[1].kind = "link"
  /\ render.html_notes[2].kind = "ref"

\* C27: story cleanup is scoped to the pass.  Every story deleted is an
\* attachment_added story of an attachment that was uploaded in the pass
\* that deleted it.
C27_CleanupScoped ==
  \A x \in deleted :
    /\ x.story.subtype = "attachment_added"
    /\ attachments[x.story.target].pass = x.pass

\* Offsets of the '|' characters of a line.
Bars(line) == {k \in 1..Len(line) : line[k] = "|"}

\* C28: table column alignment.  All lines emitted for a table, the
\* separator rule included, have the same length and have their '|'
\* characters at the same offsets.
C28_ColumnsAligned ==
  formatted.returned /\ formatted.text # <<>> =>
    LET lines == Lines(formatted.text) IN
    \A i, j \in 1..Len(lines) :
      /\ Len(lines[i]) = Len(lines[j])
      /\ Bars(lines[i]) = Bars(lines[j])

\* The entity a payload is about, and whether a request is inside its
\* object's handleEvent.
EntityOf(payload) == IF payload.issue # "none" THEN payload.issue ELSE payload.pull_request
Handling(r) == requests[r].pc \in {"running", "backoff"}

\* C29: cross-entity independence.  Requests of different entities are
\* served by different objects; a request waiting at its object's gate finds
\* the gate open unless a request of its own entity is being handled, also
\* while another entity's request runs or sleeps in its backoff; and every
\* object holds, in memory and in storage, no gid or the gid of the task of
\* its own entity.
C29_EntitiesIndependent ==
  /\ \A r, q \in Deliveries :
       /\ requests[r].object # "none" /\ requests[q].object # "none"
       /\ EntityOf(requests[r].payload) # EntityOf(requests[q].payload)
       => requests[r].object # requests[q].object
  /\ \A r \in Deliveries :
       /\ requests[r].pc = "routed"
       /\ \A q \in Deliveries :
            Handling(q) => EntityOf(requests[q].payload) # EntityOf(requests[r].payload)
       => objects[requests[r].object].lock = 0
  /\ \A r \in Deliveries :
       requests[r].object # "none" =>
         /\ objects[requests[r].object].cachedTaskGid \in {NoGid, TaskOf(requests[r].payload)}
         /\ objects[requests[r].object].storage \in {NoGid, TaskOf(requests[r].payload)}

\* The request of one entity runs while the request of the other entity
\* sleeps in its retry backoff.
C29_Witness ==
  \E r, q \in Deliveries :
    /\ EntityOf(requests[r].payload) = "A" /\ requests[r].pc = "backoff"
    /\ EntityOf(requests[q].payload) = "B" /\ requests[q].pc = "running"

\* C30: the cached id survives restarts.  When the constructor's load
\* completes, no delivery is being processed and the id loaded, which the
\* next delivery gets as its hint, is the id the last successful delivery
\* returned (none if no delivery succeeded).
C30_CacheSurvivesRestart ==
  [][(lock = Ctor /\ lock' # Ctor) =>
       /\ cachedTaskGid' = incarnation.lastGood
       /\ \A d \in Deliveries : pc[d] \in {"idle", "done"}]_vars

\* C31: a success response carries the canonical remote link or the
\* completion outcome.  Every delivery that ended in success returned a
\* defined taskGid and a result that is the task's permalink for a comment
\* event and the outcome of the completion write for any other event,
\* whether the task was created or found.
C31_SuccessCarriesResult ==
  \A d \in Deliveries :
    (pc[d] = "done" /\ Recorded(d) /\ response[d].status = 200) =>
      /\ response[d].taskGid # NoGid
      /\ response[d].result = IF isComment(ev[d]) THEN "permalink" ELSE "completion"

\* C32: signature verification prevents unauthorized requests.  With
\* WEBHOOK_SECRET configured, every POST request handled that carries no
\* valid x-hub-signature-256 header, whatever its URL, was answered 401 and
\* was not forwarded to a coordinator object.
C32_SignatureRequired ==
  \A r \in Deliveries :
    (/\ env.WEBHOOK_SECRET
     /\ requests[r].pc # "new"
     /\ requests[r].request.method = "POST"
     /\ requests[r].request.signature # "valid")
    => /\ requests[r].status = 401
       /\ requests[r].object = "none"

\* C33: WebhookHandler dispatch.  For an 'issues' event, a 'pull_request'
\* event, an 'issue_comment' event with action 'created' and a
\* 'pull_request_review_comment' event with action 'created', handleWebhook
\* called exactly one IssueSync handler, the one of that event type, and
\* its outcome is that handler's outcome; for every other event type or
\* comment action it called no handler, made no remote call and returned
\* {status 'ignored', event, action}.
C33_Dispatch ==
  \A k \in 1..Len(dispatched) :
    LET x == dispatched[k]
        isCreated == x.payload.action = "created" IN
    /\ (x.eventType = "issues" =>
          x.handlers = <<"handleIssueEvent">> /\ x.outcome = handleIssueEvent(x.payload))
    /\ (x.eventType = "pull_request" =>
          x.handlers = <<"handlePullRequestEvent">> /\ x.outcome = handlePullRequestEvent(x.payload))
    /\ (x.eventType = "issue_comment" /\ isCreated =>
          x.handlers = <<"handleCommentEvent">> /\ x.outcome = handleCommentEvent(x.payload))
    /\ (x.eventType = "pull_request_review_comment" /\ isCreated =>
          /\ x.handlers = <<"handlePullRequestCommentEvent">>
          /\ x.outcome = handlePullRequestCommentEvent(x.payload))
    /\ (\/ x.eventType \notin {"issues", "pull_request", "issue_comment", "pull_request_review_comment"}
        \/ x.eventType \in {"issue_comment", "pull_request_review_comment"} /\ ~isCreated
        => /\ x.handlers = <<>>
           /\ x.outcome.calls = <<>> /\ ~x.outcome.threw
           /\ x.outcome.result = [status |-> "ignored", event |-> x.eventType, action |-> x.payload.action])

\* A created issue comment was dispatched to handleCommentEvent and a
\* deleted one was ignored.
C33_Witness ==
  \E j, k \in 1..Len(dispatched) :
    /\ dispatched[j].eventType = "issue_comment" /\ dispatched[j].payload.action = "created"
    /\ dispatched[j].outcome.result.status = "processed"
    /\ dispatched[k].eventType = "issue_comment" /\ dispatched[k].payload.action = "deleted"
    /\ dispatched[k].outcome.result.status = "ignored"

\* C40: the convenience entry points refine the unified handler.  Whenever
\* a webhook was dispatched to handleIssueEvent, handleCommentEvent,
\* handlePullRequestEvent or handlePullRequestCommentEvent, the steps called
\* and the result are those of IssueSync.handleEvent invoked with the
\* webhook's GitHub event type and the same payload.
C40_EntryPointsRefine ==
  \A k \in 1..Len(dispatched) :
    dispatched[k].handlers # <<>> =>
      dispatched[k].outcome = IssueSync_handleEvent(dispatched[k].eventType, dispatched[k].payload)

\* The calls a step of the render pass added to its log.
NewCalls == SubSeq(render'.log, Len(render.log) + 1, Len(render'.log))

\* C34: reuse needs no download and no upload.  When the image being
\* processed already has an attachment on the task whose name equals the
\* image's hashed filename, the step that processes it neither downloads
\* the image nor uploads an attachment.
C34_ReuseWithoutTransfer ==
  [][(/\ render.phase = "images"
      /\ ~render.images[render.i].isInTable
      /\ \E g \in 1..Len(attachments) : attachments[g].name = FilenameOf(render.images[render.i]))
     => \A k \in 1..Len(NewCalls) : NewCalls[k] \notin {"download", "createFileAttachment"}]_vars

\* The option gids of the field whose name is value.
OptionsNamed(value) == {g \in 1..Len(enumOptions) : enumOptions[g] = value}

\* The elements of a sequence.
Range(seq) == {seq[k] : k \in 1..Len(seq)}

\* C35: no cross-entity race on field options.  When the syncs of two
\* different entities have both resolved the same value (each naming it
\* once, neither hit by a transient failure), the field has exactly one
\* option of that name and both results reference it.
C35_OneOptionPerValue ==
  \A p, q \in Deliveries :
    (/\ p # q
     /\ lookups[p].pc = "done" /\ lookups[q].pc = "done"
     /\ lookups[p].error # "transient" /\ lookups[q].error # "transient"
     /\ lookups[p].values = <<"bug">> /\ lookups[q].values = <<"bug">>)
    => /\ Cardinality(OptionsNamed("bug")) = 1
       /\ OptionsNamed("bug") \subseteq Range(lookups[p].optionGids)
       /\ OptionsNamed("bug") \subseteq Range(lookups[q].optionGids)

\* The log entries of a lookup whose value was resolved.
ResolvedEntries(l) == SelectSeq(l.log, LAMBDA x : x.op # "failed")

\* C36: multi-option resolution is per value.  A getMultiEnumOptionsForField
\* call that fetched the field and has ended went through every input
\* value; it returns, in input order, the gid of an option named exactly as
\* the value for every value whose option it found or created, also when
\* the creation for another value failed; and it created at most one
\* option per distinct value.
C36_PerValueResolution ==
  \A p \in Deliveries :
    LET l == lookups[p] IN
    (l.multi /\ l.pc = "done" /\ l.fetched) =>
      /\ Len(l.log) = Len(l.values)
      /\ \A k \in 1..Len(l.log) : l.log[k].value = l.values[k]
      /\ l.optionGids = [k \in 1..Len(ResolvedEntries(l)) |-> ResolvedEntries(l)[k].gid]
      /\ \A k \in 1..Len(l.log) : l.log[k].op # "failed" => enumOptions[l.log[k].gid] = l.log[k].value
      /\ \A j, k \in 1..Len(l.log) :
           (l.log[j].op = "created" /\ l.log[k].op = "created" /\ l.log[j].value = l.log[k].value)
           => j = k

\* C37: a task is created only on a confirmed absence.  With the source-URL
\* field configured, ensureTaskExists reaches createTask only in an attempt
\* whose search by source URL completed (the project listing was read) and
\* reported no matching task; a failed search fails the attempt instead.
C37_CreateOnlyOnConfirmedAbsence ==
  \A d \in Deliveries :
    (pc[d] = "create" /\ env.GITHUB_URL_FIELD_ID) =>
       /\ Len(calls[d]) > 0
       /\ calls[d][Len(calls[d])] = Call("getTasksForProject", NoGid, TRUE)
       /\ MatchingTasks = {}

\* C38: memory and durable cache agree.  Whenever no delivery is inside
\* handleEvent, this.cachedTaskGid equals the value stored under
\* 'asanaTaskGid', also after a delivery in which storage.put failed.
C38_MemoryMatchesStorage ==
  (lock = 0 /\ \A d \in Deliveries : ~InSection(d)) => cachedTaskGid = storage

\* A call of the description step that ended it with an error: a failed
\* html_notes update that is no XML parsing error, or a failed plain-text
\* fallback.
DescriptionFailed(c) ==
  /\ ~c.ok
  /\ \/ c.op = "notes"
     \/ c.op = "html_notes" /\ ~IsXmlParsingError(c.err)

\* A call of the description step that wrote the description.
DescriptionWritten(c) == c.ok /\ c.op \in {"html_notes", "notes"}

\* C39: a failed description step blocks the completion step.  Within one
\* attempt, a failed description update (with its plain-text fallback, where
\* applicable, failed too) is the attempt's last remote call, the attempt
\* counts as failed, and no completion write follows; every completion write
\* is preceded, in the same attempt, by a description update that succeeded.
C39_DescriptionFailureBlocksCompletion ==
  \A d \in Deliveries :
    \A i \in 1..Len(calls[d]) :
      /\ DescriptionFailed(calls[d][i]) =>
           /\ i = Len(calls[d])
           /\ pc[d] \in {"backoff", "start", "done"}
           /\ failures[d] = attemptsRun[d]
           /\ (pc[d] = "done" => response[d].status = 500)
      /\ calls[d][i].op = "completed" =>
           \E j \in 1..(i - 1) : DescriptionWritten(calls[d][j])

\* A 'closed' event whose plain-text fallback failed in one attempt and whose
\* task was marked complete by a later attempt, after that attempt's
\* description update.
C39_Witness ==
  \E d \in Deliveries :
    /\ ev[d].state = "closed"
    /\ lastErr[d] = "fallback"
    /\ response[d].status = 200
    /\ \E i \in 1..Len(calls[d]) : calls[d][i].op = "completed" /\ calls[d][i].ok
    /\ \E g \in Gids : remote[g].exists /\ remote[g].completed

====
